---- MODULE Spec2Model ----
(***************************************************************************)
(* EditScribe: the stage-sequencing state machine of                       *)
(* backend/core/managing_editor.py (ManagingEditor, WorkflowState) and the *)
(* reconstruction of a WorkflowState from its wire shape in                *)
(* backend/api/main.py (ensure_project_loaded); the cancellation registry  *)
(* of backend/core/cancellation.py; the generation adapter of              *)
(* backend/core/llm_client.py; the reviewers of backend/agents and the     *)
(* stage-run endpoints of backend/api/main.py.                             *)
(*                                                                         *)
(* Specifications:                                                         *)
(*   Spec          the stage state machine (workflows, clock)              *)
(*   SpecRegistry  the cancellation registry under concurrent callers      *)
(*   SpecParse     parse_json_response on backend responses                *)
(*   SpecRun       stage runs of a manuscript against cancel requests and  *)
(*                 an unreliable backend                                   *)
(*   SpecFix       the fix engine on a manuscript text                     *)
(***************************************************************************)
EXTENDS Integers, Sequences, FiniteSets, TLC

VARIABLES
    \* ManagingEditor.workflows and the readings of datetime.now()
    workflows, clock,
    \* CancellationManager._instance, its _set_lock, the threads calling the
    \* registry, and for each id the last of cancel / reset that took effect
    _instance, _set_lock, callers, last_call,
    \* a backend response (a sequence of tokens), the parts it was put
    \* together from, and what the reviewer made of it
    response, shape, parsed,
    \* the stage-run request being served: where it stands, what its reviewer
    \* has collected, and the reply to the last request
    run,
    \* stage_results_storage of api/main.py: for each manuscript and stage,
    \* the ids of the Issues of the stage's last run
    stage_results_storage,
    \* the fix endpoints: the manuscript text kept in manuscripts_storage and
    \* the last call of SelectiveEditorAgent.execute with its result
    fix,
    \* the stage-run requests served side by side, and for each project on
    \* disk its workflow/status.json
    tasks, disk,
    \* a category handler of a reviewer: the findings it was given, the
    \* Issues it returned, and the Issues that existed before
    extraction

managingVars == <<workflows, clock>>
callVars == <<_set_lock, callers, last_call>>
registryVars == <<_instance, _set_lock, callers, last_call>>

parseVars == <<response, shape, parsed>>
runVars == <<run, stage_results_storage>>
fixVars == <<fix>>
serverVars == <<tasks, disk>>
extractVars == <<extraction>>

vars == <<workflows, clock, _instance, _set_lock, callers, last_call,
          response, shape, parsed, run, stage_results_storage, fix, tasks, disk,
          extraction>>

\* what the stage state machine leaves alone
notManaging ==
    <<_instance, _set_lock, callers, last_call, response, shape, parsed, run,
      stage_results_storage, fix, tasks, disk, extraction>>

(***************************************************************************)
(* Bounds of the model.                                                    *)
(***************************************************************************)
\* number of readings of datetime.now()
MaxClock == 3
\* cap on the two running totals (Python integers are unbounded)
MaxTotal == 1

\* manuscript ids
Manuscripts == {"m1"}

\* Python's None, for Optional[EditingStage]
None == "None"
\* Python's None, for Optional[datetime]; every reading of datetime.now() is >= 1
NoneAt == 0

(***************************************************************************)
(* The enums.  A member is written by its name; its value is the string    *)
(* that model_dump(mode='json') writes and that EditingStage(value) /      *)
(* StageStatus(value) look up.                                             *)
(***************************************************************************)
EditingStage == {"ACQUISITIONS", "DEVELOPMENTAL", "LINE", "COPY", "PROOF", "COLD_READ"}

EditingStageValue ==
    [member \in EditingStage |->
        CASE member = "ACQUISITIONS" -> "acquisitions"
          [] member = "DEVELOPMENTAL" -> "developmental"
          [] member = "LINE" -> "line"
          [] member = "COPY" -> "copy"
          [] member = "PROOF" -> "proof"
          [] member = "COLD_READ" -> "cold_read"]

StageStatus == {"NOT_STARTED", "IN_PROGRESS", "COMPLETED", "SKIPPED"}

StageStatusValue ==
    [member \in StageStatus |->
        CASE member = "NOT_STARTED" -> "not_started"
          [] member = "IN_PROGRESS" -> "in_progress"
          [] member = "COMPLETED" -> "completed"
          [] member = "SKIPPED" -> "skipped"]

STAGE_ORDER == <<"ACQUISITIONS", "DEVELOPMENTAL", "LINE", "COPY", "PROOF", "COLD_READ">>

\* a stage argument that is no member of EditingStage
InvalidStage == "BOGUS"

StageArgs == EditingStage \cup {InvalidStage}

\* the scan of list.index(x) from position i on
RECURSIVE IndexFrom(_, _, _)
IndexFrom(seq, x, i) ==
    IF i > Len(seq) THEN 0
    ELSE IF seq[i] = x THEN i
    ELSE IndexFrom(seq, x, i + 1)

\* list.index(x): the 1-based position of the first x, 0 for ValueError
Index(seq, x) == IndexFrom(seq, x, 1)

(***************************************************************************)
(* WorkflowState                                                           *)
(***************************************************************************)
WorkflowState(manuscript_id, current_stage, started_at) ==
    [manuscript_id |-> manuscript_id,
     current_stage |-> current_stage,
     status |-> [s \in EditingStage |-> "NOT_STARTED"],
     started_at |-> started_at,
     completed_at |-> NoneAt,
     total_issues_found |-> 0,
     total_fixes_applied |-> 0]

_get_stage_status(workflow, stage) == workflow.status[stage]

_set_stage_status(workflow, stage, status) ==
    IF stage \in EditingStage
    THEN [workflow EXCEPT !.status[stage] = status]
    ELSE workflow

_get_next_stage(current_stage) ==
    LET current_index == Index(STAGE_ORDER, current_stage) IN
    IF current_index # 0 /\ current_index < Len(STAGE_ORDER)
    THEN STAGE_ORDER[current_index + 1]
    ELSE None

(***************************************************************************)
(* can_run_stage: the loop over range(stage_index) with its early return   *)
(***************************************************************************)
\* can_run_stage's loop accepting only COMPLETED as done
RECURSIVE CheckPreviousCompletedOnly(_, _, _, _)
CheckPreviousCompletedOnly(workflow, stage, stage_index, i) ==
    IF i >= stage_index
    THEN [can_run |-> TRUE, reason |-> "OK"]
    ELSE LET prev_stage == STAGE_ORDER[i]
             prev_status == _get_stage_status(workflow, prev_stage) IN
         IF prev_status # "COMPLETED"
         THEN [can_run |-> FALSE,
               reason |-> "Cannot run " \o EditingStageValue[stage]
                          \o ". Must complete " \o EditingStageValue[prev_stage]
                          \o " first."]
         ELSE CheckPreviousCompletedOnly(workflow, stage, stage_index, i + 1)

RECURSIVE CheckPrevious(_, _, _, _)
CheckPrevious(workflow, stage, stage_index, i) ==
    IF i >= stage_index
    THEN [can_run |-> TRUE, reason |-> "OK"]
    ELSE LET prev_stage == STAGE_ORDER[i]
             prev_status == _get_stage_status(workflow, prev_stage) IN
         IF prev_status # "COMPLETED" /\ prev_status # "SKIPPED"
         THEN [can_run |-> FALSE,
               reason |-> "Cannot run " \o EditingStageValue[stage]
                          \o ". Must complete " \o EditingStageValue[prev_stage]
                          \o " first."]
         ELSE CheckPrevious(workflow, stage, stage_index, i + 1)

\* can_run_stage looking the stage up before the workflow, so that the first
\* stage, which has no previous stage, runs without a workflow
can_run_stage_index_first(wfs, manuscript_id, stage) ==
    LET stage_index == Index(STAGE_ORDER, stage) IN
    IF stage_index = 0
    THEN [can_run |-> FALSE, reason |-> "Invalid stage: " \o stage]
    ELSE IF stage_index = 1
    THEN [can_run |-> TRUE, reason |-> "OK"]
    ELSE IF manuscript_id \notin DOMAIN wfs
    THEN [can_run |-> FALSE, reason |-> "Workflow not started. Call start_workflow() first."]
    ELSE CheckPrevious(wfs[manuscript_id], stage, stage_index, 1)

\* can_run_stage without the loop over the earlier stages
can_run_stage_any_order(wfs, manuscript_id, stage) ==
    IF manuscript_id \notin DOMAIN wfs
    THEN [can_run |-> FALSE, reason |-> "Workflow not started. Call start_workflow() first."]
    ELSE IF Index(STAGE_ORDER, stage) = 0
    THEN [can_run |-> FALSE, reason |-> "Invalid stage: " \o stage]
    ELSE [can_run |-> TRUE, reason |-> "OK"]

can_run_stage(wfs, manuscript_id, stage) ==
    IF manuscript_id \notin DOMAIN wfs
    THEN [can_run |-> FALSE, reason |-> "Workflow not started. Call start_workflow() first."]
    ELSE LET stage_index == Index(STAGE_ORDER, stage) IN
         IF stage_index = 0
         THEN [can_run |-> FALSE, reason |-> "Invalid stage: " \o stage]
         ELSE CheckPrevious(wfs[manuscript_id], stage, stage_index, 1)

is_workflow_complete(wfs, manuscript_id) ==
    IF manuscript_id \notin DOMAIN wfs
    THEN FALSE
    ELSE wfs[manuscript_id].completed_at # NoneAt

(***************************************************************************)
(* The cancellation registry: CancellationManager is a process-wide        *)
(* singleton holding the set _cancelled_ids; cancel, reset and             *)
(* is_cancelled each run as one block under _set_lock.                     *)
(***************************************************************************)
\* the ids the registry is asked about
ContextIds == {"m1", "m2"}
\* the threads that call the registry
Threads == {"t1", "t2"}

\* CancellationManager._instance before the first construction
NoInstance == [constructed |-> FALSE, _cancelled_ids |-> {}]

\* a constructor that builds the flag set anew on every call
CancellationManager_new_reinit(instance) ==
    [constructed |-> TRUE, _cancelled_ids |-> {}]

\* __new__: the instance and its flag set are made once; later calls
\* return the instance that exists
CancellationManager_new(instance) ==
    IF ~instance.constructed
    THEN [constructed |-> TRUE, _cancelled_ids |-> {}]
    ELSE instance

cancel(instance, manuscript_id) ==
    [instance EXCEPT !._cancelled_ids = @ \cup {manuscript_id}]

\* reset leaving the flag of the id as it is
reset_keep(instance, manuscript_id) == instance

\* reset dropping every flag of the registry
reset_clear(instance, manuscript_id) ==
    [instance EXCEPT !._cancelled_ids = {}]

reset(instance, manuscript_id) ==
    IF manuscript_id \in instance._cancelled_ids
    THEN [instance EXCEPT !._cancelled_ids = @ \ {manuscript_id}]
    ELSE instance

is_cancelled(instance, manuscript_id) ==
    manuscript_id \in instance._cancelled_ids

\* a thread that is not inside a call of the registry
IdleCaller == [pc |-> "idle", op |-> None, id |-> None, result |-> None, seen |-> {}]

\* the module-level cancellation_manager = CancellationManager() has run
RegistryAtImport ==
    /\ _instance = CancellationManager_new(NoInstance)
    /\ _set_lock = None
    /\ callers = [t \in Threads |-> IdleCaller]
    /\ last_call = [id \in ContextIds |-> None]

\* the reply of an endpoint: the HTTP status (0 before any request), the
\* reason or the exception behind a rejection or failure, and what the
\* reviewer had when the request ended
NoReply ==
    [status |-> 0, error |-> None, issues |-> 0, delivered |-> 0,
     failed |-> FALSE, signalled |-> FALSE]

\* no stage-run request is being served
IdleRun(reply) ==
    [pc |-> "idle", manuscript_id |-> None, stage |-> None, todo |-> <<>>,
     attempt |-> 0, issues |-> 0, delivered |-> 0, failed |-> FALSE,
     signalled |-> FALSE, pre_cancelled |-> FALSE, issue_counter |-> 0,
     issue_ids |-> <<>>, reply |-> reply]

\* no fix was requested yet for the manuscript text kept in storage
NoFix(text) ==
    [pc |-> "idle", stored |-> text, manuscript_text |-> <<>>,
     selected_issues |-> <<>>, edited_text |-> <<>>, change_log |-> <<>>,
     fixes_applied |-> 0, fixes_requested |-> 0, attempts |-> <<>>,
     reapplied |-> FALSE]

\* the tasks that serve stage-run requests
Tasks == {"t1", "t2"}

\* a task that serves no request: the status of the reply to its last
\* request (0 before any), and whether another run of the manuscript was
\* in progress during that request
IdleTask(status, overlapped) ==
    [pc |-> "idle", manuscript_id |-> None, stage |-> None, todo |-> 0,
     issues |-> 0, cancel_requested |-> FALSE, prevented |-> FALSE,
     overlapped |-> overlapped, status |-> status]

\* no request is being served and no project is on disk
NoServer ==
    /\ tasks = [t \in Tasks |-> IdleTask(0, FALSE)]
    /\ disk = <<>>

\* no category handler has run
NoExtraction ==
    [pc |-> "idle", handler |-> None, findings |-> <<>>, issues |-> <<>>,
     kept |-> <<>>]

\* no response is being parsed
NoResponse ==
    /\ response = <<>>
    /\ shape = [prefix |-> <<>>, body |-> <<>>, suffix |-> <<>>]
    /\ parsed = [done |-> FALSE, raised |-> FALSE, findings |-> <<>>]
    /\ run = IdleRun(NoReply)
    /\ stage_results_storage = <<>>
    /\ fix = NoFix(<<>>)
    /\ NoServer
    /\ extraction = NoExtraction

Init ==
    /\ workflows = <<>>
    /\ clock = 0
    /\ RegistryAtImport
    /\ NoResponse

\* datetime.now(): every reading is later than the readings before it
now == clock + 1

\* start_workflow as workflows.setdefault: an existing workflow is kept
start_workflow_setdefault(wfs, manuscript_id, at) ==
    [m \in (DOMAIN wfs) \cup {manuscript_id} |->
        IF m \in DOMAIN wfs
        THEN wfs[m]
        ELSE WorkflowState(manuscript_id, "ACQUISITIONS", at)]

\* start_workflow carrying the running totals of an existing workflow over
start_workflow_keep_totals(wfs, manuscript_id, at) ==
    [m \in (DOMAIN wfs) \cup {manuscript_id} |->
        IF m = manuscript_id
        THEN IF m \in DOMAIN wfs
             THEN [WorkflowState(manuscript_id, "ACQUISITIONS", at) EXCEPT
                      !.total_issues_found = wfs[m].total_issues_found,
                      !.total_fixes_applied = wfs[m].total_fixes_applied]
             ELSE WorkflowState(manuscript_id, "ACQUISITIONS", at)
        ELSE wfs[m]]

start_workflow(wfs, manuscript_id, at) ==
    [m \in (DOMAIN wfs) \cup {manuscript_id} |->
        IF m = manuscript_id
        THEN WorkflowState(manuscript_id, "ACQUISITIONS", at)
        ELSE wfs[m]]

StartWorkflow(m) ==
    /\ clock < MaxClock
    /\ workflows' = start_workflow(workflows, m, now)
    /\ clock' = now
    /\ UNCHANGED notManaging

\* a query: it answers from the state and leaves it as it is
CanRunStage(m, stage) ==
    /\ can_run_stage(workflows, m, stage).can_run \in BOOLEAN
    /\ UNCHANGED <<workflows, clock>>
    /\ UNCHANGED notManaging

\* mark_stage_complete with = for += on the totals
mark_stage_complete_assign(workflow, stage, issues_found, fixes_applied, at) ==
    LET w1 == _set_stage_status(workflow, stage, "COMPLETED")
        w2 == [w1 EXCEPT !.total_issues_found = issues_found,
                         !.total_fixes_applied = fixes_applied]
        next_stage == _get_next_stage(stage) IN
    IF next_stage # None
    THEN [w2 EXCEPT !.current_stage = next_stage]
    ELSE [w2 EXCEPT !.current_stage = None, !.completed_at = at]

\* mark_stage_complete ending like skip_stage: nothing done after the last stage
mark_stage_complete_as_skip(workflow, stage, issues_found, fixes_applied, at) ==
    LET w1 == _set_stage_status(workflow, stage, "COMPLETED")
        w2 == [w1 EXCEPT !.total_issues_found = @ + issues_found,
                         !.total_fixes_applied = @ + fixes_applied]
        next_stage == _get_next_stage(stage) IN
    IF next_stage # None
    THEN [w2 EXCEPT !.current_stage = next_stage]
    ELSE w2

\* mark_stage_complete without the update of the totals
mark_stage_complete_totals_kept(workflow, stage, issues_found, fixes_applied, at) ==
    LET w1 == _set_stage_status(workflow, stage, "COMPLETED")
        next_stage == _get_next_stage(stage) IN
    IF next_stage # None
    THEN [w1 EXCEPT !.current_stage = next_stage]
    ELSE [w1 EXCEPT !.current_stage = None, !.completed_at = at]

mark_stage_complete(workflow, stage, issues_found, fixes_applied, at) ==
    LET w1 == _set_stage_status(workflow, stage, "COMPLETED")
        w2 == [w1 EXCEPT !.total_issues_found = @ + issues_found,
                         !.total_fixes_applied = @ + fixes_applied]
        next_stage == _get_next_stage(stage) IN
    IF next_stage # None
    THEN [w2 EXCEPT !.current_stage = next_stage]
    ELSE [w2 EXCEPT !.current_stage = None, !.completed_at = at]

\* without a workflow the call raises ValueError and changes nothing
MarkStageComplete(m, stage, issues_found, fixes_applied) ==
    /\ IF m \notin DOMAIN workflows
       THEN UNCHANGED <<workflows, clock>>
       ELSE /\ workflows[m].total_issues_found + issues_found <= MaxTotal
            /\ workflows[m].total_fixes_applied + fixes_applied <= MaxTotal
            /\ _get_next_stage(stage) = None => clock < MaxClock
            /\ clock' = IF _get_next_stage(stage) = None THEN now ELSE clock
            /\ workflows' = [workflows EXCEPT ![m] =
                   mark_stage_complete(@, stage, issues_found, fixes_applied, now)]
    /\ UNCHANGED notManaging

\* skip_stage counting the skipped stage as one issue found
skip_stage_counted(workflow, stage) ==
    LET w1 == _set_stage_status(workflow, stage, "SKIPPED")
        w2 == [w1 EXCEPT !.total_issues_found = @ + 1]
        next_stage == _get_next_stage(stage) IN
    IF next_stage # None
    THEN [w2 EXCEPT !.current_stage = next_stage]
    ELSE w2

skip_stage(workflow, stage) ==
    LET w1 == _set_stage_status(workflow, stage, "SKIPPED")
        next_stage == _get_next_stage(stage) IN
    IF next_stage # None
    THEN [w1 EXCEPT !.current_stage = next_stage]
    ELSE w1

\* without a workflow the call raises ValueError and changes nothing
SkipStage(m, stage) ==
    /\ IF m \notin DOMAIN workflows
       THEN UNCHANGED workflows
       ELSE workflows' = [workflows EXCEPT ![m] = skip_stage(@, stage)]
    /\ UNCHANGED clock
    /\ UNCHANGED notManaging

\* delete_project: the manuscript's workflow leaves the memory
DeleteProject(m) ==
    /\ m \in DOMAIN workflows
    /\ workflows' = [x \in (DOMAIN workflows) \ {m} |-> workflows[x]]
    /\ UNCHANGED clock
    /\ UNCHANGED notManaging

\* the issues_found / fixes_applied arguments of a call
Counts == 0..1

Next ==
    \/ \E m \in Manuscripts : StartWorkflow(m)
    \/ \E m \in Manuscripts, stage \in StageArgs : CanRunStage(m, stage)
    \/ \E m \in Manuscripts, stage \in EditingStage, i \in Counts, f \in Counts :
          MarkStageComplete(m, stage, i, f)
    \/ \E m \in Manuscripts, stage \in EditingStage : SkipStage(m, stage)
    \/ \E m \in Manuscripts : DeleteProject(m)

Spec == Init /\ [][Next]_vars

(***************************************************************************)
(* The wire shape of a WorkflowState, and its reconstruction on project    *)
(* load.                                                                   *)
(***************************************************************************)
\* datetime -> ISO string, as model_dump(mode='json') writes it
isoformat(t) == "T" \o ToString(t)

\* pydantic's parsing of an Optional[datetime] field
parse_datetime(v) ==
    IF v = None
    THEN NoneAt
    ELSE CHOOSE t \in 1..(MaxClock + 1) : isoformat(t) = v

to_dict(workflow) ==
    [manuscript_id |-> workflow.manuscript_id,
     current_stage |-> IF workflow.current_stage = None
                       THEN None
                       ELSE EditingStageValue[workflow.current_stage],
     acquisitions_status |-> StageStatusValue[workflow.status["ACQUISITIONS"]],
     developmental_status |-> StageStatusValue[workflow.status["DEVELOPMENTAL"]],
     line_status |-> StageStatusValue[workflow.status["LINE"]],
     copy_status |-> StageStatusValue[workflow.status["COPY"]],
     proof_status |-> StageStatusValue[workflow.status["PROOF"]],
     cold_read_status |-> StageStatusValue[workflow.status["COLD_READ"]],
     started_at |-> IF workflow.started_at = NoneAt
                    THEN None ELSE isoformat(workflow.started_at),
     completed_at |-> IF workflow.completed_at = NoneAt
                      THEN None ELSE isoformat(workflow.completed_at),
     total_issues_found |-> workflow.total_issues_found,
     total_fixes_applied |-> workflow.total_fixes_applied]

\* EditingStage(value): the member with that value; None for ValueError
EditingStageOf(value) ==
    IF \E member \in EditingStage : EditingStageValue[member] = value
    THEN CHOOSE member \in EditingStage : EditingStageValue[member] = value
    ELSE None

\* get_status(key) of ensure_project_loaded
get_status(workflow_data, key) ==
    LET val == IF key \in DOMAIN workflow_data THEN workflow_data[key] ELSE "not_started" IN
    IF \E member \in StageStatus : StageStatusValue[member] = val
    THEN CHOOSE member \in StageStatus : StageStatusValue[member] = val
    ELSE "NOT_STARTED"

\* ensure_project_loaded restoring five stage statuses, cold_read_status left
\* at its default
ensure_project_loaded_five_stages(workflow_data) ==
    [manuscript_id |-> workflow_data.manuscript_id,
     current_stage |-> IF workflow_data.current_stage # None
                       THEN EditingStageOf(workflow_data.current_stage)
                       ELSE None,
     status |-> [s \in EditingStage |->
                   CASE s = "ACQUISITIONS" -> get_status(workflow_data, "acquisitions_status")
                     [] s = "DEVELOPMENTAL" -> get_status(workflow_data, "developmental_status")
                     [] s = "LINE" -> get_status(workflow_data, "line_status")
                     [] s = "COPY" -> get_status(workflow_data, "copy_status")
                     [] s = "PROOF" -> get_status(workflow_data, "proof_status")
                     [] s = "COLD_READ" -> "NOT_STARTED"],
     started_at |-> parse_datetime(workflow_data.started_at),
     completed_at |-> parse_datetime(workflow_data.completed_at),
     total_issues_found |-> workflow_data.total_issues_found,
     total_fixes_applied |-> workflow_data.total_fixes_applied]

\* the WorkflowState that ensure_project_loaded builds from the loaded dictionary
ensure_project_loaded(workflow_data) ==
    [manuscript_id |-> workflow_data.manuscript_id,
     current_stage |-> IF workflow_data.current_stage # None
                       THEN EditingStageOf(workflow_data.current_stage)
                       ELSE None,
     status |-> [s \in EditingStage |->
                   CASE s = "ACQUISITIONS" -> get_status(workflow_data, "acquisitions_status")
                     [] s = "DEVELOPMENTAL" -> get_status(workflow_data, "developmental_status")
                     [] s = "LINE" -> get_status(workflow_data, "line_status")
                     [] s = "COPY" -> get_status(workflow_data, "copy_status")
                     [] s = "PROOF" -> get_status(workflow_data, "proof_status")
                     [] s = "COLD_READ" -> get_status(workflow_data, "cold_read_status")],
     started_at |-> parse_datetime(workflow_data.started_at),
     completed_at |-> parse_datetime(workflow_data.completed_at),
     total_issues_found |-> workflow_data.total_issues_found,
     total_fixes_applied |-> workflow_data.total_fixes_applied]

TypeOK ==
    /\ DOMAIN workflows \subseteq Manuscripts
    /\ clock \in 0..MaxClock
    /\ \A m \in DOMAIN workflows :
          /\ workflows[m].current_stage \in EditingStage \cup {None}
          /\ workflows[m].status \in [EditingStage -> StageStatus]
          /\ workflows[m].total_issues_found \in 0..MaxTotal
          /\ workflows[m].total_fixes_applied \in 0..MaxTotal

(***************************************************************************)
(* Properties of the stage state machine                                   *)
(***************************************************************************)
Done == {"COMPLETED", "SKIPPED"}

\* every stage strictly before `stage` in the fixed order is completed or skipped
AllPreviousDone(workflow, stage) ==
    \A i, k \in 1..Len(STAGE_ORDER) :
        (STAGE_ORDER[k] = stage /\ i < k) => workflow.status[STAGE_ORDER[i]] \in Done

\* the first stage in the fixed order that is neither completed nor skipped
FirstOpenStage(workflow) ==
    IF \A s \in EditingStage : workflow.status[s] \in Done
    THEN None
    ELSE LET k == CHOOSE k \in 1..Len(STAGE_ORDER) :
                     /\ workflow.status[STAGE_ORDER[k]] \notin Done
                     /\ \A i \in 1..(k - 1) : workflow.status[STAGE_ORDER[i]] \in Done
         IN STAGE_ORDER[k]

\* the stage immediately after `stage` in the fixed order, None after cold_read
StageAfter(stage) ==
    CASE stage = "ACQUISITIONS" -> "DEVELOPMENTAL"
      [] stage = "DEVELOPMENTAL" -> "LINE"
      [] stage = "LINE" -> "COPY"
      [] stage = "COPY" -> "PROOF"
      [] stage = "PROOF" -> "COLD_READ"
      [] stage = "COLD_READ" -> None

\* C1: for a started workflow, can_run_stage answers true exactly when every
\* stage strictly before the asked stage is completed or skipped, in every
\* reachable state and for every stage of the fixed order.
C1_CanRunIffPreviousDone ==
    \A m \in DOMAIN workflows, s \in EditingStage :
        can_run_stage(workflows, m, s).can_run = AllPreviousDone(workflows[m], s)

\* copy may run, its three earlier stages completed or skipped, while proof
\* is refused because copy is still to do
C1_Witness ==
    /\ "m1" \in DOMAIN workflows
    /\ can_run_stage(workflows, "m1", "COPY") = [can_run |-> TRUE, reason |-> "OK"]
    /\ can_run_stage(workflows, "m1", "PROOF") =
          [can_run |-> FALSE, reason |-> "Cannot run proof. Must complete copy first."]
    /\ workflows["m1"].status["ACQUISITIONS"] = "COMPLETED"
    /\ workflows["m1"].status["DEVELOPMENTAL"] = "COMPLETED"
    /\ workflows["m1"].status["LINE"] = "SKIPPED"
    /\ workflows["m1"].status["COPY"] = "NOT_STARTED"

\* C2: current_stage is the first stage in the fixed order that is neither
\* completed nor skipped, or None if all six are.
C2_CurrentStageIsFirstOpen ==
    \A m \in DOMAIN workflows :
        workflows[m].current_stage = FirstOpenStage(workflows[m])

\* C3: mark_stage_complete, applied to the workflow of any reachable state with
\* any stage and any two counts, sets that stage's status to COMPLETED and no
\* other status, adds the two counts to the two totals and sets current_stage
\* to the stage after it (None after cold_read).
C3_MarkCompleteEffect ==
    \A m \in DOMAIN workflows, s \in EditingStage, i \in Counts, f \in Counts :
        LET before == workflows[m]
            after == mark_stage_complete(before, s, i, f, now) IN
        /\ after.status[s] = "COMPLETED"
        /\ \A t \in EditingStage \ {s} : after.status[t] = before.status[t]
        /\ after.total_issues_found = before.total_issues_found + i
        /\ after.total_fixes_applied = before.total_fixes_applied + f
        /\ after.current_stage = StageAfter(s)

\* line marked complete out of order, both totals raised since the start, the
\* stages around it untouched
C3_Witness ==
    /\ "m1" \in DOMAIN workflows
    /\ workflows["m1"].status["LINE"] = "COMPLETED"
    /\ workflows["m1"].status["DEVELOPMENTAL"] = "SKIPPED"
    /\ workflows["m1"].status["COPY"] = "NOT_STARTED"
    /\ workflows["m1"].current_stage = "COPY"
    /\ workflows["m1"].total_issues_found = 1
    /\ workflows["m1"].total_fixes_applied = 1

\* C4: completed_at is None until cold_read is marked complete or skipped, is
\* set by that call, and no later mark_stage_complete or skip_stage changes it.
C4_CompletedAtSetOnce ==
    [][\A m \in DOMAIN workflows, s \in EditingStage :
          ((\E i \in Counts, f \in Counts : MarkStageComplete(m, s, i, f))
              \/ SkipStage(m, s)) =>
             IF workflows[m].completed_at # NoneAt
             THEN workflows'[m].completed_at = workflows[m].completed_at
             ELSE (workflows'[m].completed_at # NoneAt) = (s = "COLD_READ")]_vars

\* C5: mark_stage_complete on cold_read, from any state of a started workflow,
\* leaves current_stage None and completed_at set.
C5_TerminalMarkComplete ==
    [][\A m \in DOMAIN workflows, i \in Counts, f \in Counts :
          MarkStageComplete(m, "COLD_READ", i, f) =>
             /\ workflows'[m].current_stage = None
             /\ workflows'[m].completed_at # NoneAt]_vars

\* cold_read marked complete twice since the start, out of order: acquisitions
\* was never run
C5_Witness ==
    /\ "m1" \in DOMAIN workflows
    /\ workflows["m1"].status["COLD_READ"] = "COMPLETED"
    /\ workflows["m1"].status["ACQUISITIONS"] = "NOT_STARTED"
    /\ workflows["m1"].current_stage = None
    /\ workflows["m1"].completed_at = workflows["m1"].started_at + 2
    /\ workflows["m1"].completed_at = clock

\* C6: skip_stage leaves current_stage and the presence of completed_at as
\* mark_stage_complete on the same stage would, with the status SKIPPED;
\* skipping cold_read leaves current_stage None and the workflow complete.
C6_SkipLikeMarkComplete ==
    [][\A m \in DOMAIN workflows, s \in EditingStage :
          SkipStage(m, s) =>
             LET marked == mark_stage_complete(workflows[m], s, 0, 0, now) IN
             /\ workflows'[m].status[s] = "SKIPPED"
             /\ workflows'[m].current_stage = marked.current_stage
             /\ (workflows'[m].completed_at # NoneAt) = (marked.completed_at # NoneAt)
             /\ is_workflow_complete(workflows', m) = (marked.completed_at # NoneAt)]_vars

\* the WorkflowState start creates at time `at`
FreshWorkflow(m, at) ==
    [manuscript_id |-> m,
     current_stage |-> "ACQUISITIONS",
     status |-> [s \in EditingStage |-> "NOT_STARTED"],
     started_at |-> at,
     completed_at |-> NoneAt,
     total_issues_found |-> 0,
     total_fixes_applied |-> 0]

\* C7: start_workflow leaves the manuscript with current_stage acquisitions,
\* six statuses NOT_STARTED, both totals 0, started_at set to the time of the
\* call and completed_at None.
C7_StartCreatesInitialState ==
    [][\A m \in Manuscripts :
          StartWorkflow(m) =>
             /\ m \in DOMAIN workflows'
             /\ workflows'[m] = FreshWorkflow(m, clock')
             /\ workflows'[m].started_at # NoneAt]_vars

\* the state the first start of a manuscript leaves
C7_Witness ==
    /\ "m1" \in DOMAIN workflows
    /\ clock = 1
    /\ workflows["m1"] = FreshWorkflow("m1", 1)

NotStartedOutcome ==
    [can_run |-> FALSE, reason |-> "Workflow not started. Call start_workflow() first."]

InvalidStageOutcome(stage) ==
    [can_run |-> FALSE, reason |-> "Invalid stage: " \o stage]

\* C9: can_run_stage without a workflow answers false with the not-started
\* reason for every stage argument, acquisitions included; with a workflow and
\* a stage outside the fixed order it answers false with the invalid-stage
\* reason; the query is a function of the state and creates no workflow.
C9_CanRunRejections ==
    \A m \in Manuscripts, s \in StageArgs :
        /\ m \notin DOMAIN workflows
              => can_run_stage(workflows, m, s) = NotStartedOutcome
        /\ (m \in DOMAIN workflows /\ s \notin EditingStage)
              => can_run_stage(workflows, m, s) = InvalidStageOutcome(s)

\* the workflow was deleted: acquisitions is refused again as not started
C9_Witness ==
    /\ workflows = <<>>
    /\ clock > 0
    /\ can_run_stage(workflows, "m1", "ACQUISITIONS") = NotStartedOutcome
    /\ can_run_stage(workflows, "m1", InvalidStage) = NotStartedOutcome

\* C10: a reachable WorkflowState written by to_dict and rebuilt by
\* ensure_project_loaded has the same six statuses, the same current_stage and
\* the same totals.
C10_RoundTrip ==
    \A m \in DOMAIN workflows :
        LET restored == ensure_project_loaded(to_dict(workflows[m])) IN
        /\ restored.status = workflows[m].status
        /\ restored.current_stage = workflows[m].current_stage
        /\ restored.total_issues_found = workflows[m].total_issues_found
        /\ restored.total_fixes_applied = workflows[m].total_fixes_applied

\* a finished workflow with completed and skipped stages and non-zero totals,
\* whose wire shape carries the enum values
C10_Witness ==
    /\ "m1" \in DOMAIN workflows
    /\ workflows["m1"].status["COLD_READ"] = "COMPLETED"
    /\ workflows["m1"].status["PROOF"] = "SKIPPED"
    /\ workflows["m1"].status["COPY"] = "NOT_STARTED"
    /\ workflows["m1"].current_stage = None
    /\ workflows["m1"].total_issues_found = 1
    /\ to_dict(workflows["m1"]).cold_read_status = "completed"
    /\ to_dict(workflows["m1"]).proof_status = "skipped"
    /\ to_dict(workflows["m1"]).current_stage = None

(***************************************************************************)
(* SpecRegistry: threads calling the registry.  A call waits for           *)
(* _set_lock, runs its block while holding it, and returns.                *)
(***************************************************************************)
RegistryOps == {"cancel", "reset", "is_cancelled"}

\* what the block of an operation does to the instance
Effect(instance, op, id) ==
    CASE op = "cancel" -> cancel(instance, id)
      [] op = "reset" -> reset(instance, id)
      [] OTHER -> instance

\* what the operation returns
Answer(instance, op, id) ==
    IF op = "is_cancelled" THEN is_cancelled(instance, id) ELSE None

\* a thread enters an operation; seen collects the values the flag of its id
\* takes while the call is open
Call(t, op, id) ==
    /\ callers[t].pc = "idle"
    /\ callers' = [callers EXCEPT ![t] =
           [pc |-> "waiting", op |-> op, id |-> id, result |-> None,
            seen |-> {is_cancelled(_instance, id)}]]
    /\ UNCHANGED <<_instance, _set_lock, last_call>>
    /\ UNCHANGED managingVars
    /\ UNCHANGED parseVars
    /\ UNCHANGED fixVars
    /\ UNCHANGED serverVars
    /\ UNCHANGED extractVars
    /\ UNCHANGED runVars

\* with self._set_lock: entered
Acquire(t) ==
    /\ callers[t].pc = "waiting"
    /\ _set_lock = None
    /\ _set_lock' = t
    /\ callers' = [callers EXCEPT ![t].pc = "holding"]
    /\ UNCHANGED <<_instance, last_call>>
    /\ UNCHANGED managingVars
    /\ UNCHANGED parseVars
    /\ UNCHANGED fixVars
    /\ UNCHANGED serverVars
    /\ UNCHANGED extractVars
    /\ UNCHANGED runVars

\* the block runs and the lock is released
Release(t) ==
    /\ callers[t].pc = "holding"
    /\ _set_lock = t
    /\ _instance' = Effect(_instance, callers[t].op, callers[t].id)
    /\ _set_lock' = None
    /\ last_call' = IF callers[t].op \in {"cancel", "reset"}
                    THEN [last_call EXCEPT ![callers[t].id] = callers[t].op]
                    ELSE last_call
    /\ callers' = [u \in Threads |->
           IF u = t
           THEN [callers[t] EXCEPT
                    !.pc = "returned",
                    !.result = Answer(_instance, callers[t].op, callers[t].id)]
           ELSE IF callers[u].pc = "waiting"
                THEN [callers[u] EXCEPT
                         !.seen = @ \cup {is_cancelled(_instance', callers[u].id)}]
                ELSE callers[u]]
    /\ UNCHANGED managingVars
    /\ UNCHANGED parseVars
    /\ UNCHANGED fixVars
    /\ UNCHANGED serverVars
    /\ UNCHANGED extractVars
    /\ UNCHANGED runVars

\* the caller has its result
Return(t) ==
    /\ callers[t].pc = "returned"
    /\ callers' = [callers EXCEPT ![t] = IdleCaller]
    /\ UNCHANGED <<_instance, _set_lock, last_call>>
    /\ UNCHANGED managingVars
    /\ UNCHANGED parseVars
    /\ UNCHANGED fixVars
    /\ UNCHANGED serverVars
    /\ UNCHANGED extractVars
    /\ UNCHANGED runVars

\* CancellationManager() called again anywhere in the process
Construct ==
    /\ _instance' = CancellationManager_new(_instance)
    /\ UNCHANGED <<_set_lock, callers, last_call>>
    /\ UNCHANGED managingVars
    /\ UNCHANGED parseVars
    /\ UNCHANGED fixVars
    /\ UNCHANGED serverVars
    /\ UNCHANGED extractVars
    /\ UNCHANGED runVars

InitRegistry ==
    /\ workflows = <<>>
    /\ clock = 0
    /\ RegistryAtImport
    /\ NoResponse

NextRegistry ==
    \/ \E t \in Threads, op \in RegistryOps, id \in ContextIds : Call(t, op, id)
    \/ \E t \in Threads : Acquire(t)
    \/ \E t \in Threads : Release(t)
    \/ \E t \in Threads : Return(t)
    \/ Construct

SpecRegistry == InitRegistry /\ [][NextRegistry]_vars

(***************************************************************************)
(* Claims on the cancellation registry.                                    *)
(***************************************************************************)
\* C16: for every id, is_cancelled(id) is true exactly when the last of
\* cancel(id) / reset(id) to take effect was cancel(id), and false when
\* neither was ever called; cancel and reset on one id leave is_cancelled
\* of every other id as it was; cancel and reset are each idempotent.
C16_FlagFollowsLastCall ==
    /\ \A id \in ContextIds :
          is_cancelled(_instance, id) <=> (last_call[id] = "cancel")
    /\ \A a \in ContextIds : \A b \in ContextIds \ {a} :
          /\ is_cancelled(cancel(_instance, a), b) = is_cancelled(_instance, b)
          /\ is_cancelled(reset(_instance, a), b) = is_cancelled(_instance, b)
    /\ \A a \in ContextIds :
          /\ is_cancelled(cancel(_instance, a), a)
          /\ ~is_cancelled(reset(_instance, a), a)
          /\ cancel(cancel(_instance, a), a) = cancel(_instance, a)
          /\ reset(reset(_instance, a), a) = reset(_instance, a)

\* one id was cancelled and then reset while the other id stays cancelled
C16_Witness ==
    /\ last_call["m1"] = "reset"
    /\ last_call["m2"] = "cancel"
    /\ ~is_cancelled(_instance, "m1")
    /\ is_cancelled(_instance, "m2")

\* C17: under every interleaving of cancel, reset and is_cancelled from
\* concurrent callers each operation takes effect at one instant inside its
\* call (what is_cancelled returns is a value the flag had while the call
\* was open, and one thread at a time runs a block), and constructing the
\* manager again returns the one shared instance with its flag set intact.
C17_AtomicSharedRegistry ==
    /\ \A t \in Threads :
          (callers[t].pc = "returned" /\ callers[t].op = "is_cancelled")
              => callers[t].result \in callers[t].seen
    /\ \A t \in Threads :
          callers[t].pc = "holding"
              => (_set_lock = t /\ \A u \in Threads \ {t} : callers[u].pc # "holding")
    /\ CancellationManager_new(_instance) = _instance

\* is_cancelled has answered TRUE for an id while another thread is inside
\* reset for that id, the flag still set
C17_Witness ==
    /\ callers["t1"].pc = "returned"
    /\ callers["t1"].op = "is_cancelled"
    /\ callers["t1"].result = TRUE
    /\ callers["t2"].pc = "holding"
    /\ callers["t2"].op = "reset"
    /\ callers["t2"].id = callers["t1"].id
    /\ _instance._cancelled_ids # {}

(***************************************************************************)
(* Parsing a backend response.  A response is a sequence of tokens: the    *)
(* fence marker, the word json, newline, blank, the JSON punctuation, two  *)
(* finding objects a and b, and a word of prose p.                         *)
(***************************************************************************)
\* the fence marker, three backquotes
FENCE == "FENCE"
NL == "\n"
SP == " "
\* the finding objects a response can carry
Items == {"a", "b"}

\* \s of the regular expressions, and the whitespace of str.strip and JSON
IsSpace(tok) == tok \in {SP, NL}

SetMin(S) == CHOOSE x \in S : \A y \in S : x <= y
SetMax(S) == CHOOSE x \in S : \A y \in S : x >= y

\* str.strip()
strip(s) ==
    LET keep == {i \in 1..Len(s) : ~IsSpace(s[i])} IN
    IF keep = {} THEN <<>> ELSE SubSeq(s, SetMin(keep), SetMax(keep))

\* str.startswith
startswith(s, tok) == Len(s) >= 1 /\ s[1] = tok

\* the first re.sub (opening fence): the fence, an optional json, and the
\* whitespace after it up to its last newline are removed; without a
\* newline there is no match and the text stays
sub_opening_fence(s) ==
    IF ~startswith(s, FENCE)
    THEN s
    ELSE LET i == IF Len(s) >= 2 /\ s[2] = "json" THEN 3 ELSE 2
             blanks == {k \in i..Len(s) : \A j \in i..k : IsSpace(s[j])}
             nls == {k \in blanks : s[k] = NL} IN
         IF nls = {} THEN s ELSE SubSeq(s, SetMax(nls) + 1, Len(s))

\* the second re.sub (closing fence): a newline and a fence with nothing
\* but whitespace after them are removed
sub_closing_fence(s) ==
    LET at == {i \in 1..(Len(s) - 1) :
                  /\ s[i] = NL
                  /\ s[i + 1] = FENCE
                  /\ \A j \in (i + 2)..Len(s) : IsSpace(s[j])} IN
    IF at = {} THEN s ELSE SubSeq(s, 1, SetMin(at) - 1)

\* json.loads: whitespace between tokens is skipped; an array of objects
\* gives a list, one object a dict, everything else raises JSONDecodeError
json_loads(s) ==
    LET t == SelectSeq(s, LAMBDA tok : ~IsSpace(tok))
        n == Len(t)
        inner == SubSeq(t, 2, n - 1)
        array == /\ n >= 2
                 /\ t[1] = "["
                 /\ t[n] = "]"
                 /\ \/ Len(inner) = 0
                    \/ /\ Len(inner) % 2 = 1
                       /\ \A k \in 1..Len(inner) :
                             IF k % 2 = 1 THEN inner[k] \in Items ELSE inner[k] = "," IN
    IF array
    THEN [raised |-> FALSE, kind |-> "list",
          items |-> SelectSeq(inner, LAMBDA tok : tok \in Items)]
    ELSE IF n = 1 /\ t[1] \in Items
         THEN [raised |-> FALSE, kind |-> "dict", items |-> <<>>]
         ELSE [raised |-> TRUE, kind |-> "JSONDecodeError", items |-> <<>>]

parse_json_response(resp) ==
    LET r1 == strip(resp)
        r2 == IF startswith(r1, FENCE)
              THEN sub_closing_fence(sub_opening_fence(r1))
              ELSE r1 IN
    json_loads(r2)

\* the reviewers' try block around a parse that strips no fence
extract_findings_no_fence(resp) ==
    LET r == json_loads(strip(resp)) IN
    IF ~r.raised /\ r.kind = "list" THEN r.items ELSE <<>>

\* the reviewers' try block around the parse: a list gives its findings; an
\* exception of the parse, or of the loop over something that is no list of
\* objects, is caught and leaves no findings
extract_findings(resp) ==
    LET r == parse_json_response(resp) IN
    IF ~r.raised /\ r.kind = "list" THEN r.items ELSE <<>>

\* what a backend puts before, in and after the findings
Prefixes ==
    { <<>>, <<FENCE, "json", NL>>, <<FENCE, NL>>, <<FENCE, "json", SP, NL>>,
      <<FENCE, "json">>, <<"p">>, <<"p", NL>>, <<NL>>,
      <<"p", NL, FENCE, "json", NL>> }
ArrayBodies ==
    { <<"[", "]">>, <<"[", "a", "]">>, <<"[", "a", ",", "b", "]">>,
      <<"[", NL, "a", ",", NL, "b", NL, "]">> }
Bodies ==
    ArrayBodies \cup { <<>>, <<"p">>, <<"[", "a">>, <<"a">> }
Suffixes ==
    { <<>>, <<NL, FENCE>>, <<NL, FENCE, NL>>, <<FENCE>>, <<"p">>, <<NL, "p">>,
      <<NL, FENCE, "p">> }

InitParse ==
    /\ workflows = <<>>
    /\ clock = 0
    /\ RegistryAtImport
    /\ \E pre \in Prefixes, body \in Bodies, suf \in Suffixes :
          /\ shape = [prefix |-> pre, body |-> body, suffix |-> suf]
          /\ response = pre \o body \o suf
    /\ parsed = [done |-> FALSE, raised |-> FALSE, findings |-> <<>>]
    /\ run = IdleRun(NoReply)
    /\ stage_results_storage = <<>>
    /\ fix = NoFix(<<>>)
    /\ NoServer
    /\ extraction = NoExtraction

\* a reviewer parses the response it was given
ParseResponse ==
    /\ ~parsed.done
    /\ parsed' = [done |-> TRUE,
                  raised |-> parse_json_response(response).raised,
                  findings |-> extract_findings(response)]
    /\ UNCHANGED <<response, shape>>
    /\ UNCHANGED managingVars
    /\ UNCHANGED registryVars
    /\ UNCHANGED runVars
    /\ UNCHANGED fixVars
    /\ UNCHANGED serverVars
    /\ UNCHANGED extractVars

NextParse == ParseResponse

SpecParse == InitParse /\ [][NextParse]_vars

\* the findings of an array, in order
ItemsOf(body) == SelectSeq(body, LAMBDA tok : tok \in Items)

\* the array is the whole content of a json fence
FencedForm(sh) ==
    /\ sh.prefix = <<FENCE, "json", NL>>
    /\ sh.suffix = <<NL, FENCE>>

\* the array stands in prose: prose before it, after it, or both
ProseForm(sh) ==
    /\ sh.prefix \in { <<>>, <<"p">>, <<"p", NL>> }
    /\ sh.suffix \in { <<>>, <<"p">>, <<NL, "p">> }
    /\ sh.prefix # <<>> \/ sh.suffix # <<>>

\* C20: from a response that is a JSON array in a json fence, or a JSON
\* array between leading / trailing prose, extraction recovers exactly the
\* array's findings; from a response without a parseable array it yields
\* no findings and no exception.
C20_EmbeddedArrayRecovered ==
    parsed.done =>
        /\ (shape.body \in ArrayBodies /\ (FencedForm(shape) \/ ProseForm(shape)))
              => parsed.findings = ItemsOf(shape.body)
        /\ shape.body \notin ArrayBodies => parsed.findings = <<>>

\* the fenced form alone is recovered
FencedArrayRecovered ==
    (parsed.done /\ shape.body \in ArrayBodies /\ FencedForm(shape))
        => (~parsed.raised /\ parsed.findings = ItemsOf(shape.body))

(***************************************************************************)
(* Stage runs.  A stage-run endpoint checks the order, clears the          *)
(* manuscript's cancellation flag, and lets its reviewer make one          *)
(* generation call after the other.  generate_content is wrapped by the    *)
(* retry decorator: whenever the function raises, the decorator waits and  *)
(* calls it again, and when the last attempt has raised it raises          *)
(* RetryError.  A cancel request can arrive between any two steps of a     *)
(* run, also while a call is with the backend.                             *)
(*                                                                         *)
(* In llm_client.py the definitions from generate_content on (line 132)    *)
(* follow the class statement of CancelledException at its indentation,    *)
(* so Python binds them to that class and not to LLMClient.  The model     *)
(* takes generate_content as the method that Agent.generate reaches        *)
(* through LLMClient.generate, which is what the reviewers, the endpoints  *)
(* and the /debug/llm endpoint of api/main.py expect of it.                *)
(***************************************************************************)
\* stop_after_attempt(5) of the retry decorator
stop_after_attempt == 5
\* segments of a manuscript
MaxChunks == 2
\* findings the backend delivers for one manuscript
MaxFindings == 2

\* the stages whose endpoints are modelled: developmental, line, copy
RunStages == {"DEVELOPMENTAL", "LINE", "COPY"}

\* what the copy editor reads of a style sheet: whether it has a timeline,
\* and how many characters
StyleSheets ==
    { [timeline |-> FALSE, characters |-> 0],
      [timeline |-> TRUE, characters |-> 1] }

RECURSIVE Repeat(_, _)
Repeat(seq, n) == IF n = 0 THEN <<>> ELSE seq \o Repeat(seq, n - 1)

\* the generation calls a chunked reviewer makes for one chunk, by the
\* category of the Issues they produce
chunk_calls(stage, style_sheet) ==
    IF stage = "LINE"
    THEN <<"voice", "wordiness", "syntax">>
    ELSE <<"grammar">>
         \o (IF style_sheet.timeline THEN <<"timeline">> ELSE <<>>)
         \o Repeat(<<"consistency">>,
                   IF style_sheet.characters > 5 THEN 5 ELSE style_sheet.characters)
         \o <<"house_style">>

\* the generation calls of one execute, in order
execute_calls(stage, chunks, style_sheet) ==
    IF stage = "DEVELOPMENTAL"
    THEN <<"developmental">>
    ELSE Repeat(chunk_calls(stage, style_sheet), chunks)

\* whether the reviewer's generate call stands inside a try block that
\* catches Exception: so in LineEditor and CopyEditor, while
\* DevelopmentalEditor calls generate before its try
catches_generate(stage) == stage # "DEVELOPMENTAL"

\* generate_content without the look at the registry
check_cancellation_never(instance, context_id) == FALSE

\* generate_content, before the backend is called: CancelledException is
\* raised when a context id is given and registered cancelled
check_cancellation(instance, context_id) ==
    context_id # None /\ is_cancelled(instance, context_id)

\* what the backend does with a call: it fails, or it answers with a text
NoShape == [prefix |-> <<>>, body |-> <<>>, suffix |-> <<>>]
BackendError == [error |-> TRUE, shape |-> NoShape]
RunShapes ==
    { [prefix |-> <<>>, body |-> <<"[", "a", "]">>, suffix |-> <<>>],
      [prefix |-> <<FENCE, "json", NL>>, body |-> <<"[", "a", "]">>,
       suffix |-> <<NL, FENCE>>],
      [prefix |-> <<>>, body |-> <<"[", "]">>, suffix |-> <<>>],
      [prefix |-> <<>>, body |-> <<"[", "a", ",", "b", "]">>, suffix |-> <<>>],
      [prefix |-> <<>>, body |-> <<"p">>, suffix |-> <<>>],
      [prefix |-> <<"p">>, body |-> <<"[", "a", "]">>, suffix |-> <<>>] }
Outcomes == {BackendError} \cup {[error |-> FALSE, shape |-> sh] : sh \in RunShapes}

TextOf(sh) == sh.prefix \o sh.body \o sh.suffix

\* generate_content, after the backend call: an exception of the backend is
\* caught and the empty string returned, an answer is returned stripped
generate_content_result(outcome) ==
    IF outcome.error THEN <<>> ELSE strip(TextOf(outcome.shape))

\* a request ends: the reply is kept and the endpoint is free again
EndRun(r, status, error) ==
    IdleRun([status |-> status, error |-> error, issues |-> r.issues,
             delivered |-> r.delivered, failed |-> r.failed,
             signalled |-> r.signalled])

\* stage_results_storage[manuscript_id][stage] = {"issues": ...}: the
\* Issues of an earlier run of the stage are replaced
store_issues(storage, manuscript_id, stage, issue_ids) ==
    LET old == IF manuscript_id \in DOMAIN storage THEN storage[manuscript_id]
               ELSE <<>>
        new == [s \in DOMAIN old \cup {stage} |->
                   IF s = stage THEN issue_ids ELSE old[s]] IN
    [m \in DOMAIN storage \cup {manuscript_id} |->
        IF m = manuscript_id THEN new ELSE storage[m]]

\* the reviewer is done with a generation call: it goes on to the next
\* one, or execute returns and the endpoint keeps the Issues, saves the
\* report, marks the stage complete and answers 200; an exception of the saving is answered
\* with 500, like every exception inside the endpoint's try block
Proceed(r) ==
    IF Len(r.todo) > 1
    THEN /\ run' = [r EXCEPT !.pc = "attempt", !.todo = Tail(@), !.attempt = 1,
                             !.pre_cancelled = FALSE]
         /\ UNCHANGED <<workflows, stage_results_storage>>
    ELSE /\ stage_results_storage' =
                store_issues(stage_results_storage, r.manuscript_id, r.stage,
                             r.issue_ids)
         /\ \E report_saved \in BOOLEAN :
               IF report_saved
               THEN /\ workflows' = [workflows EXCEPT ![r.manuscript_id] =
                           mark_stage_complete(@, r.stage, r.issues, 0, now)]
                    /\ run' = EndRun(r, 200, None)
               ELSE /\ run' = EndRun(r, 500, "OSError")
                    /\ UNCHANGED workflows

\* a stage-run request arrives
\* a stage run that resets the cancellation flag before the ordering check
RunStage_reset_first(m, stage, chunks, style_sheet) ==
    /\ run.pc = "idle"
    /\ _instance' = reset(_instance, m)
    /\ LET answer == can_run_stage(workflows, m, stage) IN
       IF ~answer.can_run
       THEN run' = IdleRun([NoReply EXCEPT !.status = 400, !.error = answer.reason])
       ELSE run' = [pc |-> "attempt", manuscript_id |-> m, stage |-> stage,
                    todo |-> execute_calls(stage, chunks, style_sheet),
                    attempt |-> 1, issues |-> 0, delivered |-> 0,
                    failed |-> FALSE, signalled |-> FALSE,
                    pre_cancelled |-> is_cancelled(_instance, m),
                    issue_counter |-> 0, issue_ids |-> <<>>,
                    reply |-> NoReply]
    /\ UNCHANGED <<workflows, clock, stage_results_storage>>
    /\ UNCHANGED callVars
    /\ UNCHANGED parseVars
    /\ UNCHANGED fixVars
    /\ UNCHANGED serverVars
    /\ UNCHANGED extractVars

RunStage(m, stage, chunks, style_sheet) ==
    /\ run.pc = "idle"
    /\ LET answer == can_run_stage(workflows, m, stage) IN
       IF ~answer.can_run
       THEN /\ run' = IdleRun([NoReply EXCEPT !.status = 400, !.error = answer.reason])
            /\ UNCHANGED _instance
       ELSE /\ _instance' = reset(_instance, m)
            /\ run' = [pc |-> "attempt", manuscript_id |-> m, stage |-> stage,
                       todo |-> execute_calls(stage, chunks, style_sheet),
                       attempt |-> 1, issues |-> 0, delivered |-> 0,
                       failed |-> FALSE, signalled |-> FALSE,
                       pre_cancelled |-> is_cancelled(_instance, m),
                       issue_counter |-> 0, issue_ids |-> <<>>,
                       reply |-> NoReply]
    /\ UNCHANGED <<workflows, clock, stage_results_storage>>
    /\ UNCHANGED callVars
    /\ UNCHANGED parseVars
    /\ UNCHANGED fixVars
    /\ UNCHANGED serverVars
    /\ UNCHANGED extractVars

\* one attempt of generate_content up to the backend call
Attempt ==
    /\ run.pc = "attempt"
    /\ IF check_cancellation(_instance, run.manuscript_id)
       THEN IF run.attempt < stop_after_attempt
            THEN /\ run' = [run EXCEPT !.attempt = @ + 1]
                 /\ UNCHANGED <<workflows, stage_results_storage>>
            ELSE IF catches_generate(run.stage)
                 THEN Proceed([run EXCEPT !.signalled = TRUE])
                 ELSE /\ run' = EndRun([run EXCEPT !.signalled = TRUE], 500, "RetryError")
                      /\ UNCHANGED <<workflows, stage_results_storage>>
       ELSE /\ run' = [run EXCEPT !.pc = "in_flight"]
            /\ UNCHANGED <<workflows, stage_results_storage>>
    /\ UNCHANGED <<clock, _instance>>
    /\ UNCHANGED callVars
    /\ UNCHANGED parseVars
    /\ UNCHANGED fixVars
    /\ UNCHANGED serverVars
    /\ UNCHANGED extractVars

\* the findings the Issue constructor rejects: b is an object whose
\* location is null, and Issue.location is a str
Rejected == {"b"}

\* the findings before the first one that the Issue constructor rejects
Accepted(findings) ==
    LET bad == {k \in 1..Len(findings) : findings[k] \in Rejected} IN
    IF bad = {} THEN findings ELSE SubSeq(findings, 1, SetMin(bad) - 1)

\* the loop over the findings with a counter that starts anew in every call
make_issues_from_zero(issue_counter, findings) ==
    [issue_counter |-> issue_counter,
     issue_ids |-> [k \in 1..Len(Accepted(findings)) |-> k]]

\* the loop over the findings of one generation call: issue_counter is
\* increased and then an Issue with that id is made; a finding that the
\* Issue constructor rejects ends the loop in the except clause, after the
\* counter was increased for it, and the Issues made before it are kept
make_issues(issue_counter, findings) ==
    LET made == Len(Accepted(findings))
        reached == IF made < Len(findings) THEN made + 1 ELSE made IN
    [issue_counter |-> issue_counter + reached,
     issue_ids |-> [k \in 1..made |-> issue_counter + k]]

\* the findings an answer carries where a reviewer can read them: an array
\* that is the whole answer or the whole content of a json fence, up to a
\* finding that cannot be made an Issue
Delivered(outcome) ==
    IF /\ ~outcome.error
       /\ outcome.shape.body \in ArrayBodies
       /\ \/ FencedForm(outcome.shape)
          \/ (outcome.shape.prefix = <<>> /\ outcome.shape.suffix = <<>>)
    THEN Len(Accepted(ItemsOf(outcome.shape.body)))
    ELSE 0

\* the number of Issues kept for a stage of a manuscript
Stored(storage, manuscript_id, stage) ==
    IF manuscript_id \in DOMAIN storage /\ stage \in DOMAIN storage[manuscript_id]
    THEN Len(storage[manuscript_id][stage])
    ELSE 0

\* the number of Issues kept for the other stages of a manuscript
StoredElsewhere(storage, manuscript_id, stage) ==
    Stored(storage, manuscript_id, "DEVELOPMENTAL")
        + Stored(storage, manuscript_id, "LINE")
        + Stored(storage, manuscript_id, "COPY")
        - Stored(storage, manuscript_id, stage)

\* the backend call ends and the reviewer parses what generate returns
BackendReturns(outcome) ==
    /\ run.pc = "in_flight"
    /\ workflows[run.manuscript_id].total_issues_found + run.issues
          + Len(ItemsOf(outcome.shape.body)) <= MaxFindings
    /\ StoredElsewhere(stage_results_storage, run.manuscript_id, run.stage)
          + run.issues + Len(ItemsOf(outcome.shape.body)) <= MaxFindings
    /\ LET made == make_issues(run.issue_counter,
                                extract_findings(generate_content_result(outcome))) IN
       Proceed([run EXCEPT
           !.issues = @ + Len(made.issue_ids),
           !.issue_counter = made.issue_counter,
           !.issue_ids = @ \o made.issue_ids,
           !.delivered = @ + Delivered(outcome),
           !.failed = @ \/ outcome.error \/ outcome.shape.body \notin ArrayBodies,
           !.pre_cancelled = FALSE])
    /\ UNCHANGED <<clock, _instance>>
    /\ UNCHANGED callVars
    /\ UNCHANGED parseVars
    /\ UNCHANGED fixVars
    /\ UNCHANGED serverVars
    /\ UNCHANGED extractVars

\* cancel_stage: a cancel request for the manuscript
CancelStage(m) ==
    /\ _instance' = cancel(_instance, m)
    /\ UNCHANGED <<workflows, clock, run, stage_results_storage>>
    /\ UNCHANGED callVars
    /\ UNCHANGED parseVars
    /\ UNCHANGED fixVars
    /\ UNCHANGED serverVars
    /\ UNCHANGED extractVars

\* the manuscript is uploaded and its acquisitions stage is complete
InitRun ==
    /\ workflows = [m \in Manuscripts |->
           mark_stage_complete(WorkflowState(m, "ACQUISITIONS", 1),
                               "ACQUISITIONS", 0, 0, 1)]
    /\ clock = 1
    /\ RegistryAtImport
    /\ NoResponse

NextRun ==
    \/ \E m \in Manuscripts, stage \in RunStages, chunks \in 1..MaxChunks,
          style_sheet \in StyleSheets : RunStage(m, stage, chunks, style_sheet)
    \/ Attempt
    \/ \E outcome \in Outcomes : BackendReturns(outcome)
    \/ \E m \in Manuscripts : CancelStage(m)

SpecRun == InitRun /\ [][NextRun]_vars

(***************************************************************************)
(* Claims on generation calls and stage runs.                              *)
(***************************************************************************)
\* C11: between a cancel(id) and the next reset(id) no stage run sends a
\* new backend call with context id: a call is sent only in a step that
\* found the flag of the id clear, and a cancel arriving while a call is
\* with the backend leaves that call and the run as they are.
C11_NoCallWhileCancelled ==
    [][ /\ (run.pc = "attempt" /\ run'.pc = "in_flight")
              => ~is_cancelled(_instance, run.manuscript_id)
        /\ (/\ run.pc = "in_flight"
            /\ ~is_cancelled(_instance, run.manuscript_id)
            /\ is_cancelled(_instance', run.manuscript_id))
              => run' = run
      ]_vars

\* a call that was with the backend when the cancel came has delivered its
\* finding, and the next call of the run has been held back
C11_Witness ==
    /\ run.pc = "attempt"
    /\ run.attempt = 2
    /\ run.issues = 1
    /\ is_cancelled(_instance, run.manuscript_id)

\* C12: when generate is called with a context id that is registered
\* cancelled, the cancellation signal reaches the caller in that very
\* step, after one check, without backoff and without another attempt.
C12_CancellationNotRetried ==
    [][ (/\ run.pc = "attempt"
         /\ check_cancellation(_instance, run.manuscript_id)
         /\ run' # run)
            => (run'.pc = "idle" \/ run'.todo # run.todo)
      ]_vars

\* C13: when generate raises the cancellation signal during a stage run,
\* the run ends in that step without a reply of success: no further
\* generation call is attempted.
C13_SignalAbortsRun ==
    [][ (/\ run.pc = "attempt"
         /\ check_cancellation(_instance, run.manuscript_id)
         /\ run.attempt = stop_after_attempt
         /\ run' # run)
            => (run'.pc = "idle" /\ run'.reply.status # 200)
      ]_vars

\* the caller is told that the operation was cancelled
ReportedCancelled(reply) == reply.error = "CancelledException"

\* C14: a stage run that met the cancellation signal leaves the workflow
\* state as it was before the run (stage status, current_stage, counters)
\* and is reported to the caller as cancelled.
C14_AbortedRunLeavesState ==
    [][ (run.pc # "idle" /\ run'.pc = "idle" /\ run'.reply.signalled)
            => (workflows' = workflows /\ ReportedCancelled(run'.reply))
      ]_vars

\* C15: when the id was cancelled before the stage run began, the first
\* generation attempt of the run does not reach the backend.
C15_EarlyCancelStopsFirstCall ==
    [][ (run.pc = "attempt" /\ run.pre_cancelled /\ run' # run)
            => run'.pc # "in_flight"
      ]_vars

\* C15, as the code has it: the reset at the start of a stage run clears a
\* cancel registered before the run began; unless cancel is called again
\* after that, the first generation attempt finds the flag clear and the
\* backend is called.
C15_RunStartClearsCancel ==
    [][ /\ (run.pc = "idle" /\ run'.pc = "attempt")
              => ~is_cancelled(_instance', run'.manuscript_id)
        /\ (/\ run.pc = "attempt"
            /\ run.pre_cancelled
            /\ run.attempt = 1
            /\ ~is_cancelled(_instance, run.manuscript_id)
            /\ run' # run)
              => run'.pc = "in_flight"
      ]_vars

\* the first call of a run is with the backend although the id was
\* cancelled when the request arrived
C15_Witness ==
    /\ run.pc = "in_flight"
    /\ run.pre_cancelled
    /\ ~is_cancelled(_instance, run.manuscript_id)

\* C18: a generation call whose backend attempt fails is attempted again,
\* up to 5 attempts, before the pair is given up.
C18_TransientFailureRetried ==
    [][ (BackendReturns(BackendError) /\ run.attempt < stop_after_attempt)
            => (/\ run'.pc = "attempt"
                /\ run'.todo = run.todo
                /\ run'.attempt = run.attempt + 1)
      ]_vars

\* C19: a failed generation call or an unparseable response adds no
\* finding for its pair and raises nothing: the reviewer goes on to the
\* next pair, after the last pair the run ends without an exception of the
\* reviewer, and the findings the other pairs delivered are all there.
C19_FailedPairIsolated ==
    /\ [](/\ run.issues = run.delivered
          /\ run.reply.issues = run.reply.delivered)
    /\ [][ (run.pc = "in_flight" /\ run' # run)
              => IF Len(run.todo) > 1
                 THEN /\ run'.pc = "attempt"
                      /\ run'.todo = Tail(run.todo)
                 ELSE /\ run'.pc = "idle"
                      /\ run'.reply.status = 200 \/ run'.reply.error = "OSError"
         ]_vars

\* a run with a failed or unparseable pair has ended with success and with
\* the finding of another pair
C19_Witness ==
    /\ run.pc = "idle"
    /\ run.reply.status = 200
    /\ run.reply.failed
    /\ run.reply.issues >= 1

(***************************************************************************)
(* Claims on the stage pointer under gated completion.                     *)
(***************************************************************************)
\* C30: when every mark_stage_complete is made where can_run_stage is true,
\* re-runs of completed stages included, current_stage is always the first
\* stage that is neither completed nor skipped, and so never stands on a
\* stage that is already completed.
C30_CurrentStageConsistent ==
    \A m \in DOMAIN workflows :
        workflows[m].current_stage = FirstOpenStage(workflows[m])

(***************************************************************************)
(* Claims on Issue ids.                                                    *)
(***************************************************************************)
StrictlyIncreasing(ids) ==
    \A i, j \in 1..Len(ids) : i < j => ids[i] < ids[j]

\* C21: within one run of a reviewer the ids of the Issues are strictly
\* increasing in the order the Issues were made, hence pairwise distinct,
\* over all chunks and categories, also when calls fail, answers cannot be
\* parsed or findings are rejected.
C21_IdsIncreaseWithinRun ==
    /\ StrictlyIncreasing(run.issue_ids)
    /\ \A m \in DOMAIN stage_results_storage :
          \A s \in DOMAIN stage_results_storage[m] :
              StrictlyIncreasing(stage_results_storage[m][s])

\* a run of two chunks has ended with two Issues, made by different calls
\* of the first chunk, after a finding was rejected and a call had failed
\* or answered unparseably
C21_Witness ==
    /\ run.pc = "idle"
    /\ run.reply.status = 200
    /\ run.reply.failed
    /\ \E m \in DOMAIN stage_results_storage :
          \E s \in DOMAIN stage_results_storage[m] :
              stage_results_storage[m][s] = <<1, 3>>

\* C22: the ids of a manuscript's Issues are unique over the whole
\* manuscript: no two Issues kept for it, of whatever stages, share an id.
C22_IdsUniqueInManuscript ==
    \A m \in DOMAIN stage_results_storage :
        \A s \in DOMAIN stage_results_storage[m] :
            \A t \in DOMAIN stage_results_storage[m] \ {s} :
                \A i \in 1..Len(stage_results_storage[m][s]) :
                    \A j \in 1..Len(stage_results_storage[m][t]) :
                        stage_results_storage[m][s][i] # stage_results_storage[m][t][j]

(***************************************************************************)
(* The fix engine: SelectiveEditorAgent of                                 *)
(* backend/agents/selective_editor_agent.py behind the apply-fix and       *)
(* apply-batch-fixes endpoints of backend/api/main.py.  A manuscript text  *)
(* is a sequence of characters and a suggestion a sequence of tokens.  The *)
(* agent is created without set_context, so its generation calls carry no *)
(* context id and never look at the cancellation registry.                 *)
(***************************************************************************)
\* characters of context on each side of the anchor (200 in the source)
ContextChars == 1
\* words of the midpoint window on each side of the midpoint (250 in the
\* source)
ContextWords == 1
\* Issues in one request
MaxIssues == 2
\* len(issue.suggestion) < 50
short_suggestion == 50

\* the single and the double quotation mark
Q == "QUOTE"
DQ == "DQUOTE"
\* the words Change to, and a stretch of forty characters without quotation
\* marks or newlines
CHANGE_TO == "Change to"
LONG == "LONG"

Max2(a, b) == IF a >= b THEN a ELSE b
Min2(a, b) == IF a <= b THEN a ELSE b

\* s[start:end] with Python's indices, 0 <= start
slice(s, start, end) == SubSeq(s, start + 1, end)

\* the indices (Python's) at which sub occurs in text
Occurrences(text, sub) ==
    {i \in 0..(Len(text) - Len(sub)) : SubSeq(text, i + 1, i + Len(sub)) = sub}

\* sub in text
contains(text, sub) == Occurrences(text, sub) # {}

\* str.rfind
find_last(text, sub) ==
    IF contains(text, sub) THEN SetMax(Occurrences(text, sub)) ELSE -1

\* str.find
find(text, sub) ==
    IF contains(text, sub) THEN SetMin(Occurrences(text, sub)) ELSE -1

\* the replacement of the last occurrence
replace_last(text, old, new) ==
    IF ~contains(text, old)
    THEN text
    ELSE LET i == find_last(text, old) IN
         slice(text, 0, i) \o new \o slice(text, i + Len(old), Len(text))

\* str.replace(old, new, 1)
replace_first(text, old, new) ==
    IF ~contains(text, old)
    THEN text
    ELSE LET i == find(text, old) IN
         slice(text, 0, i) \o new \o slice(text, i + Len(old), Len(text))

\* str.endswith
endswith(s, tok) == Len(s) >= 1 /\ s[Len(s)] = tok

\* str.split(): the maximal stretches without whitespace
split(text) ==
    LET starts == {i \in 1..Len(text) :
                      ~IsSpace(text[i]) /\ (i = 1 \/ IsSpace(text[i - 1]))}
        nth(k) == CHOOSE i \in starts : Cardinality({j \in starts : j < i}) = k - 1
        last(i) == SetMin({j \in i..Len(text) :
                              j = Len(text) \/ IsSpace(text[j + 1])}) IN
    [k \in 1..Cardinality(starts) |-> SubSeq(text, nth(k), last(nth(k)))]

\* " ".join(words)
RECURSIVE join(_)
join(words) ==
    IF words = <<>> THEN <<>>
    ELSE IF Len(words) = 1 THEN words[1]
    ELSE words[1] \o <<SP>> \o join(Tail(words))

\* the words around the midpoint, whatever the location hint
_extract_section(text) ==
    LET words == split(text)
        mid_point == Len(words) \div 2
        first == Max2(0, mid_point - ContextWords)
        last == Min2(Len(words), mid_point + ContextWords) IN
    join(slice(words, first, last))

\* the length of a suggestion in characters
RECURSIVE str_len(_)
str_len(s) ==
    IF s = <<>> THEN 0
    ELSE (CASE Head(s) = CHANGE_TO -> 9
            [] Head(s) = LONG -> 40
            [] OTHER -> 1) + str_len(Tail(s))

\* re.search of Change to, an optional colon, a blank, a quotation mark, as
\* few characters as possible, a quotation mark: whether it matched, and
\* group(1)
change_to_search(suggestion) ==
    LET n == Len(suggestion)
        opening(p) == IF p + 1 <= n /\ suggestion[p + 1] = ":" THEN p + 3 ELSE p + 2
        closings(p) == {c \in (opening(p) + 1)..n : suggestion[c] \in {Q, DQ}}
        heads == {p \in 1..n :
                     /\ suggestion[p] = CHANGE_TO
                     /\ opening(p) <= n
                     /\ suggestion[opening(p) - 1] = SP
                     /\ suggestion[opening(p)] \in {Q, DQ}
                     /\ closings(p) # {}
                     /\ \A k \in (opening(p) + 1)..(SetMin(closings(p)) - 1) :
                           suggestion[k] # NL} IN
    IF heads = {}
    THEN [matched |-> FALSE, group |-> <<>>]
    ELSE LET p == SetMin(heads) IN
         [matched |-> TRUE,
          group |-> SubSeq(suggestion, opening(p) + 1, SetMin(closings(p)) - 1)]

\* what the backend does with the prompt of a rewrite: it sends the segment
\* back as it is, a rewritten segment, a rewritten segment in quotation
\* marks after a newline, or it fails
Answers == {"echo", "plain", "quoted", "error"}

rewrite_outcome(answer, section) ==
    IF answer = "error"
    THEN BackendError
    ELSE [error |-> FALSE,
          shape |-> [prefix |-> <<>>,
                     body |-> CASE answer = "echo" -> section
                                [] answer = "plain" -> <<"b">>
                                [] answer = "quoted" -> <<NL, DQ, "b", DQ>>,
                     suffix |-> <<>>]]

\* the result of a fix that was not applied
NotApplied(text, path) ==
    [success |-> FALSE, edited_text |-> text, before |-> <<>>, after |-> <<>>,
     path |-> path, called |-> FALSE, answer |-> None]

\* the context of a rewrite: the characters around the first occurrence of
\* target_text at idx
context_window(text, target_text, idx) ==
    slice(text, Max2(0, idx - ContextChars),
                Min2(Len(text), idx + Len(target_text) + ContextChars))

\* the section to rewrite: the context of target_text where it stands in the
\* text, the midpoint window otherwise
section_of(text, target_text) ==
    IF target_text # <<>> /\ contains(text, target_text)
    THEN context_window(text, target_text, find(text, target_text))
    ELSE _extract_section(text)

\* corrected_section: the stripped answer without the quotation marks that
\* wrap it
corrected_section_of(stripped) ==
    IF startswith(stripped, DQ) /\ endswith(stripped, DQ)
    THEN slice(stripped, 1, Len(stripped) - 1)
    ELSE stripped

\* the section is replaced as a whole by the corrected section
replace_section(text, section, corrected_section, answer) ==
    IF section = <<>>
    THEN NotApplied(text, "none")
    ELSE [success |-> TRUE,
          edited_text |-> replace_first(text, section, corrected_section),
          before |-> section, after |-> corrected_section,
          path |-> "rewrite", called |-> TRUE, answer |-> answer]

\* the backend rewrites the section
rewrite_section(text, section, answer) ==
    replace_section(text, section,
        corrected_section_of(
            strip(generate_content_result(rewrite_outcome(answer, section)))),
        answer)

\* _apply_llm_fix: the window around the first occurrence of original_text,
\* or the midpoint window, is rewritten by the backend and replaced as a
\* whole; generate takes no exception of the backend out of
\* generate_content, so the except clause is not reached
_apply_llm_fix(text, issue, answer) ==
    rewrite_section(text, section_of(text, issue.original_text), answer)

\* _apply_bible_fix: the direct replacement, or the rewrite
_apply_bible_fix(text, issue, answer) ==
    IF /\ issue.original_text # <<>>
       /\ contains(text, issue.original_text)
       /\ str_len(issue.suggestion) < short_suggestion
       /\ \E p \in 1..Len(issue.suggestion) : issue.suggestion[p] = CHANGE_TO
       /\ change_to_search(issue.suggestion).matched
    THEN LET new_text == change_to_search(issue.suggestion).group IN
         [success |-> TRUE,
          edited_text |-> replace_first(text, issue.original_text, new_text),
          before |-> issue.original_text, after |-> new_text,
          path |-> "direct", called |-> FALSE, answer |-> None]
    ELSE _apply_llm_fix(text, issue, answer)

_apply_fix(text, issue, answer) ==
    IF issue.bible_conflict
    THEN _apply_bible_fix(text, issue, answer)
    ELSE _apply_llm_fix(text, issue, answer)

\* the Issues of the request in the order they were given
processing_order_as_given(selected_issues) ==
    [k \in 1..Len(selected_issues) |-> k]

\* critical_issues + major_issues + minor_issues, as positions in the
\* request
processing_order(selected_issues) ==
    LET positions == [k \in 1..Len(selected_issues) |-> k]
        of(severity) ==
            SelectSeq(positions, LAMBDA k : selected_issues[k].severity = severity) IN
    of("critical") \o of("major") \o of("minor")

\* one turn of the loop of execute: an applied fix moves the text on and is
\* appended to the change log
fix_recorded(acc, issue, result) ==
    [edited_text |-> IF result.success THEN result.edited_text
                     ELSE acc.edited_text,
     change_log |-> IF result.success
                    THEN Append(acc.change_log,
                                [issue_id |-> issue.id,
                                 before |-> result.before,
                                 after |-> result.after])
                    ELSE acc.change_log,
     attempts |-> Append(acc.attempts,
                         [issue |-> issue, text |-> acc.edited_text,
                          result |-> result])]

\* the loop of execute over the Issues left to process
RECURSIVE apply_all(_, _, _, _)
apply_all(queue, selected_issues, answers, acc) ==
    IF queue = <<>>
    THEN acc
    ELSE apply_all(Tail(queue), selected_issues, answers,
             fix_recorded(acc, selected_issues[Head(queue)],
                 _apply_fix(acc.edited_text, selected_issues[Head(queue)],
                            answers[Head(queue)])))

\* the dictionary execute returns
execute_result(acc, selected_issues) ==
    [edited_text |-> acc.edited_text,
     change_log |-> acc.change_log,
     fixes_applied |-> Len(acc.change_log),
     fixes_requested |-> Len(selected_issues),
     attempts |-> acc.attempts]

\* SelectiveEditorAgent.execute
execute(manuscript_text, selected_issues, answers) ==
    execute_result(
        apply_all(processing_order(selected_issues), selected_issues, answers,
                  [edited_text |-> manuscript_text, change_log |-> <<>>,
                   attempts |-> <<>>]),
        selected_issues)

\* the manuscripts: empty; the anchor alone; no anchor, words that are
\* joined by one blank; no anchor, words that are joined by a newline; the
\* anchor next to a newline; the anchor twice; the anchor twice with the
\* same neighbours
Texts ==
    { <<>>,
      <<"a">>,
      <<"b", SP, "b">>,
      <<"b", NL, "b">>,
      <<"a", NL, "b">>,
      <<"a", "b", "b", "a", "b">>,
      <<"b", "b", "a", "b", "b", "a", "b">> }

\* Issue.severity is a str: the three severities of the reviewers' prompts
\* and one other value, which a reviewer copies from a finding and an
\* endpoint from the request data
Severities == {"critical", "major", "minor", "high"}

\* what an Issue asks for: a short suggestion of the Change to form, one of
\* that form with a long replacement, and one in other words
ShortChange == <<CHANGE_TO, ":", SP, Q, "b", Q>>
LongChange == <<CHANGE_TO, ":", SP, Q, LONG, Q>>
Prose == <<"p">>

Requests ==
    { [bible_conflict |-> TRUE, original_text |-> <<"a">>, suggestion |-> ShortChange],
      [bible_conflict |-> TRUE, original_text |-> <<"a">>, suggestion |-> LongChange],
      [bible_conflict |-> FALSE, original_text |-> <<"a">>, suggestion |-> ShortChange],
      [bible_conflict |-> FALSE, original_text |-> <<>>, suggestion |-> Prose] }

\* the Issue objects the endpoints build from the request data
IssueOf(id, severity, request) ==
    [id |-> id, severity |-> severity, bible_conflict |-> request.bible_conflict,
     original_text |-> request.original_text, suggestion |-> request.suggestion]

Batches ==
    UNION { { [k \in 1..n |-> IssueOf(k, severity[k], request[k])] :
                severity \in [1..n -> Severities], request \in [1..n -> Requests] } :
            n \in 1..MaxIssues }

\* the endpoint after execute: the edited text is kept when a fix was
\* applied
Kept(stored, manuscript_text, selected_issues, result, again) ==
    [pc |-> "done",
     stored |-> IF result.fixes_applied > 0 THEN result.edited_text ELSE stored,
     manuscript_text |-> manuscript_text,
     selected_issues |-> selected_issues,
     edited_text |-> result.edited_text,
     change_log |-> result.change_log,
     fixes_applied |-> result.fixes_applied,
     fixes_requested |-> result.fixes_requested,
     attempts |-> result.attempts,
     reapplied |-> again]

Served(stored, manuscript_text, selected_issues, answers, again) ==
    Kept(stored, manuscript_text, selected_issues,
         execute(manuscript_text, selected_issues, answers), again)

\* apply_batch_fixes, and apply_fix for a single Issue
ApplyBatchFixes(selected_issues, answers) ==
    /\ fix.pc = "idle"
    /\ fix' = Served(fix.stored, fix.stored, selected_issues, answers, FALSE)
    /\ UNCHANGED managingVars
    /\ UNCHANGED registryVars
    /\ UNCHANGED parseVars
    /\ UNCHANGED runVars
    /\ UNCHANGED serverVars
    /\ UNCHANGED extractVars

\* apply_fix once more with the Issue that was applied
ApplyFixAgain(answer) ==
    /\ fix.pc = "done"
    /\ ~fix.reapplied
    /\ Len(fix.selected_issues) = 1
    /\ fix.fixes_applied > 0
    /\ fix' = Served(fix.stored, fix.stored, fix.selected_issues,
                     [k \in {1} |-> answer], TRUE)
    /\ UNCHANGED managingVars
    /\ UNCHANGED registryVars
    /\ UNCHANGED parseVars
    /\ UNCHANGED runVars
    /\ UNCHANGED serverVars
    /\ UNCHANGED extractVars

\* a manuscript was uploaded
InitFix ==
    /\ workflows = <<>>
    /\ clock = 0
    /\ RegistryAtImport
    /\ response = <<>>
    /\ shape = [prefix |-> <<>>, body |-> <<>>, suffix |-> <<>>]
    /\ parsed = [done |-> FALSE, raised |-> FALSE, findings |-> <<>>]
    /\ run = IdleRun(NoReply)
    /\ stage_results_storage = <<>>
    /\ \E text \in Texts : fix = NoFix(text)
    /\ NoServer
    /\ extraction = NoExtraction

NextFix ==
    \/ \E selected_issues \in Batches :
          \E answers \in [1..Len(selected_issues) -> Answers] :
              ApplyBatchFixes(selected_issues, answers)
    \/ \E answer \in Answers : ApplyFixAgain(answer)

SpecFix == InitFix /\ [][NextFix]_vars

(***************************************************************************)
(* Claims on the fix engine.                                               *)
(***************************************************************************)
Rank(severity) ==
    CASE severity = "critical" -> 1
      [] severity = "major" -> 2
      [] severity = "minor" -> 3
      [] OTHER -> 4

\* x comes before y: a higher severity, or the same severity and earlier in
\* the request (the id of an Issue is its position in the request)
Before(x, y) ==
    \/ Rank(x.severity) < Rank(y.severity)
    \/ (x.severity = y.severity /\ x.id < y.id)

\* C23: in one execute the critical Issues are attempted first, then the
\* major, then the minor ones, in the order of the request within a
\* severity; the entries of the change log stand in that order too.
C23_SeverityOrder ==
    fix.pc = "done" =>
        /\ \A i, j \in 1..Len(fix.attempts) :
              i < j => Before(fix.attempts[i].issue, fix.attempts[j].issue)
        /\ \A i, j \in 1..Len(fix.change_log) :
              i < j => Before(fix.selected_issues[fix.change_log[i].issue_id],
                              fix.selected_issues[fix.change_log[j].issue_id])

\* a minor Issue was given before a critical one and both were applied
C23_Witness ==
    /\ fix.pc = "done"
    /\ Len(fix.selected_issues) = 2
    /\ fix.selected_issues[1].severity = "minor"
    /\ fix.selected_issues[2].severity = "critical"
    /\ Len(fix.change_log) = 2
    /\ fix.change_log[1].issue_id = 2

\* edited is text with the first occurrence of old replaced by new and
\* every other character as it was
FirstOccurrenceReplaced(text, old, new, edited) ==
    \E i \in Occurrences(text, old) :
        /\ \A j \in Occurrences(text, old) : i <= j
        /\ Len(edited) = Len(text) - Len(old) + Len(new)
        /\ \A k \in 1..i : edited[k] = text[k]
        /\ \A k \in 1..Len(new) : edited[i + k] = new[k]
        /\ \A k \in (i + Len(old) + 1)..Len(text) :
              edited[k - Len(old) + Len(new)] = text[k]

\* the Issue of an attempt is a bible conflict, its original_text is not
\* empty and stands in the current text, its suggestion has the Change to
\* form
DirectCase(a) ==
    /\ a.issue.bible_conflict
    /\ a.issue.original_text # <<>>
    /\ contains(a.text, a.issue.original_text)
    /\ change_to_search(a.issue.suggestion).matched

DirectlyFixed(a) ==
    /\ a.result.success
    /\ ~a.result.called
    /\ FirstOccurrenceReplaced(a.text, a.issue.original_text,
                               change_to_search(a.issue.suggestion).group,
                               a.result.edited_text)

\* C24 as stated: a bible conflict whose original_text stands in the text
\* and whose suggestion has the Change to form is fixed by replacing the
\* first occurrence with the replacement, without a backend call and with
\* every other character unchanged.
C24_DirectFix ==
    \A k \in 1..Len(fix.attempts) :
        DirectCase(fix.attempts[k]) => DirectlyFixed(fix.attempts[k])

\* C24: the same for suggestions of fewer than 50 characters.
C24_ShortDirectFix ==
    \A k \in 1..Len(fix.attempts) :
        (/\ DirectCase(fix.attempts[k])
         /\ str_len(fix.attempts[k].issue.suggestion) < short_suggestion)
            => DirectlyFixed(fix.attempts[k])

\* a direct fix of a text in which the original_text stands twice
C24_Witness ==
    \E k \in 1..Len(fix.attempts) :
        /\ DirectCase(fix.attempts[k])
        /\ str_len(fix.attempts[k].issue.suggestion) < short_suggestion
        /\ Cardinality(Occurrences(fix.attempts[k].text,
                                   fix.attempts[k].issue.original_text)) = 2
        /\ fix.attempts[k].result.edited_text # fix.attempts[k].text

\* C25: an Issue whose original_text does not stand in the current text is
\* not applied and leaves the text as it is.
C25_AbsentAnchorNotApplied ==
    \A k \in 1..Len(fix.attempts) :
        (/\ fix.attempts[k].issue.original_text # <<>>
         /\ ~contains(fix.attempts[k].text, fix.attempts[k].issue.original_text))
            => (/\ ~fix.attempts[k].result.success
                /\ fix.attempts[k].result.edited_text = fix.attempts[k].text)

\* C26: an Issue whose generation call fails is not applied and leaves the
\* text as it is, and the Issues after it are still attempted.
C26_FailedCallNotApplied ==
    /\ fix.pc = "done" => Len(fix.attempts) = Len(fix.selected_issues)
    /\ \A k \in 1..Len(fix.attempts) :
          fix.attempts[k].result.answer = "error"
              => (/\ ~fix.attempts[k].result.success
                  /\ fix.attempts[k].result.edited_text = fix.attempts[k].text)

\* the replacements of a change log made one after the other, each at the
\* first occurrence
RECURSIVE Replay(_, _)
Replay(text, change_log) ==
    IF change_log = <<>>
    THEN text
    ELSE Replay(replace_first(text, Head(change_log).before, Head(change_log).after),
                Tail(change_log))

\* the attempts that changed the text
Changing(attempts) ==
    {k \in 1..Len(attempts) : attempts[k].result.edited_text # attempts[k].text}

\* the change log replays to the edited text, and fixes_applied is its
\* length and at most fixes_requested
LogReplays ==
    fix.pc = "done" =>
        /\ Replay(fix.manuscript_text, fix.change_log) = fix.edited_text
        /\ fix.fixes_applied = Len(fix.change_log)
        /\ fix.fixes_applied <= fix.fixes_requested

\* C27: after execute the change log has one entry for each fix that
\* changed the text and no other, fixes_applied is their number and at most
\* fixes_requested, the before span of each entry stands in the text the
\* fix met, and the log replays to the edited text.
C27_LogMatchesChanges ==
    fix.pc = "done" =>
        LET applied == SelectSeq(fix.attempts, LAMBDA a : a.result.success) IN
        /\ LogReplays
        /\ Len(fix.change_log) = Cardinality(Changing(fix.attempts))
        /\ \A k \in 1..Len(fix.change_log) :
              /\ contains(applied[k].text, fix.change_log[k].before)
              /\ applied[k].result.edited_text # applied[k].text

\* C28: applying once more an Issue that was applied changes nothing and is
\* reported as not applied.
C28_ReapplyIsNoOp ==
    fix.reapplied =>
        /\ fix.fixes_applied = 0
        /\ fix.edited_text = fix.manuscript_text
        /\ fix.stored = fix.manuscript_text

\* the Issue of an attempt was rewritten in the window around its
\* original_text
AnchoredRewrite(a) ==
    /\ a.result.path = "rewrite"
    /\ a.issue.original_text # <<>>
    /\ contains(a.text, a.issue.original_text)

C31_StatusMovesForward ==
    [][\A m \in DOMAIN workflows, called \in EditingStage :
          ((\E i \in Counts, f \in Counts : MarkStageComplete(m, called, i, f))
              \/ SkipStage(m, called)) =>
             \A s \in EditingStage :
                 /\ workflows[m].status[s] = "COMPLETED"
                       => workflows'[m].status[s] = "COMPLETED"
                 /\ workflows[m].status[s] = "SKIPPED"
                       => workflows'[m].status[s] # "COMPLETED"]_vars

(***************************************************************************)
(* The stage state machine behind a caller that asks can_run_stage before  *)
(* every mark_stage_complete and skip_stage, as the stage-run endpoints of *)
(* api/main.py do before they run a stage.                                 *)
(***************************************************************************)
GatedMarkStageComplete(m, stage, issues_found, fixes_applied) ==
    /\ can_run_stage(workflows, m, stage).can_run
    /\ MarkStageComplete(m, stage, issues_found, fixes_applied)

GatedSkipStage(m, stage) ==
    /\ can_run_stage(workflows, m, stage).can_run
    /\ SkipStage(m, stage)

NextGated ==
    \/ \E m \in Manuscripts : StartWorkflow(m)
    \/ \E m \in Manuscripts, stage \in EditingStage, i \in Counts, f \in Counts :
          GatedMarkStageComplete(m, stage, i, f)
    \/ \E m \in Manuscripts, stage \in EditingStage : GatedSkipStage(m, stage)

SpecGated == Init /\ [][NextGated]_vars

\* C32: when every mark_stage_complete and skip_stage follows a true
\* can_run_stage for the same stage, the completed or skipped stages are the
\* first stages of the fixed order: no stage is completed or skipped while
\* an earlier one is not started or in progress.
C32_DoneStagesFormPrefix ==
    \A m \in DOMAIN workflows :
        \A i, j \in 1..Len(STAGE_ORDER) :
            (i < j /\ workflows[m].status[STAGE_ORDER[j]] \in Done)
                => workflows[m].status[STAGE_ORDER[i]] \in Done

\* three stages are done, one of them skipped, a completed one was made
\* skipped by a second call, and the stages after them are not started
C32_Witness ==
    /\ "m1" \in DOMAIN workflows
    /\ workflows["m1"].status["ACQUISITIONS"] = "SKIPPED"
    /\ workflows["m1"].status["DEVELOPMENTAL"] = "COMPLETED"
    /\ workflows["m1"].status["LINE"] = "SKIPPED"
    /\ workflows["m1"].status["COPY"] = "NOT_STARTED"
    /\ workflows["m1"].status["COLD_READ"] = "NOT_STARTED"
    /\ workflows["m1"].current_stage = "DEVELOPMENTAL"
    /\ workflows["m1"].total_issues_found = 1

(***************************************************************************)
(* The stage state machine with two manuscripts.                           *)
(***************************************************************************)
ManuscriptPair == {"m1", "m2"}

\* the stages the calls on the two manuscripts name: the first and the last
PairStages == {"ACQUISITIONS", "COLD_READ"}

\* get_workflow_status: workflows.get(manuscript_id)
get_workflow_status(wfs, manuscript_id) ==
    IF manuscript_id \in DOMAIN wfs
    THEN [found |-> TRUE, workflow |-> wfs[manuscript_id]]
    ELSE [found |-> FALSE, workflow |-> WorkflowState(None, None, NoneAt)]

\* a query: it answers from the state and leaves it as it is
GetWorkflowStatus(m) ==
    /\ get_workflow_status(workflows, m).found \in BOOLEAN
    /\ UNCHANGED <<workflows, clock>>
    /\ UNCHANGED notManaging

NextPair ==
    \/ \E m \in ManuscriptPair : StartWorkflow(m)
    \/ \E m \in ManuscriptPair, stage \in PairStages : CanRunStage(m, stage)
    \/ \E m \in ManuscriptPair : GetWorkflowStatus(m)
    \/ \E m \in ManuscriptPair, stage \in PairStages, i \in Counts, f \in Counts :
          MarkStageComplete(m, stage, i, f)
    \/ \E m \in ManuscriptPair, stage \in PairStages : SkipStage(m, stage)

SpecPair == Init /\ [][NextPair]_vars

\* the step is a mark_stage_complete of manuscript m
IsMarkComplete(m) ==
    \E stage \in PairStages, i \in Counts, f \in Counts :
        MarkStageComplete(m, stage, i, f)

\* C33: the two totals of a workflow are 0 after start_workflow, grow by the
\* two arguments in every mark_stage_complete of the manuscript, and are
\* left as they are by every other call (can_run_stage, skip_stage,
\* get_workflow_status, and every call on another manuscript), so that they
\* are the sums of the arguments of all mark_stage_complete calls since the
\* start; a call on one manuscript leaves the WorkflowState of every other
\* manuscript as it is.
C33_TotalsChangeOnlyInMarkComplete ==
    [][\A m \in DOMAIN workflows :
          /\ \A stage \in PairStages, i \in Counts, f \in Counts :
                MarkStageComplete(m, stage, i, f) =>
                   /\ workflows'[m].total_issues_found
                         = workflows[m].total_issues_found + i
                   /\ workflows'[m].total_fixes_applied
                         = workflows[m].total_fixes_applied + f
          /\ StartWorkflow(m) =>
                /\ workflows'[m].total_issues_found = 0
                /\ workflows'[m].total_fixes_applied = 0
          /\ (~IsMarkComplete(m) /\ ~StartWorkflow(m)) =>
                /\ workflows'[m].total_issues_found = workflows[m].total_issues_found
                /\ workflows'[m].total_fixes_applied = workflows[m].total_fixes_applied
          /\ (\E o \in ManuscriptPair \ {m} :
                 \/ StartWorkflow(o)
                 \/ IsMarkComplete(o)
                 \/ \E stage \in PairStages : SkipStage(o, stage))
                => workflows'[m] = workflows[m]
      ]_vars

\* the first manuscript has totals from a mark_stage_complete; the second
\* was started later, had a stage skipped and one marked complete without
\* findings, and its totals are 0
C33_Witness ==
    /\ DOMAIN workflows = ManuscriptPair
    /\ workflows["m1"].total_issues_found = 1
    /\ workflows["m1"].total_fixes_applied = 1
    /\ workflows["m2"].started_at > workflows["m1"].started_at
    /\ workflows["m2"].status["ACQUISITIONS"] = "SKIPPED"
    /\ workflows["m2"].status["COLD_READ"] = "COMPLETED"
    /\ workflows["m2"].total_issues_found = 0
    /\ workflows["m2"].total_fixes_applied = 0

(***************************************************************************)
(* The stage-run endpoints serving requests side by side, with the         *)
(* workflow status they keep on disk and restarts of the process.  A task  *)
(* checks the order, clears the manuscript's cancellation flag, lets its   *)
(* reviewer make its generation calls, and then marks the stage complete   *)
(* and writes workflow/status.json.  Other requests are served between the *)
(* generation calls of a run.  A generation call is taken as one step: its *)
(* look at the registry decides whether the backend is called.             *)
(***************************************************************************)
\* generation calls of one run
MaxCalls == 2

\* the stages whose endpoints are modelled: acquisitions, developmental, line
ServerStages == {"ACQUISITIONS", "DEVELOPMENTAL", "LINE"}

\* what the outcome of a run's savings can be: both are written, the report
\* cannot be written, the workflow status cannot be written
Savings == {"saved", "report_failed", "status_failed"}

\* create_project: the project directory without workflow/status.json
create_project(d, manuscript_id) ==
    [m \in DOMAIN d \cup {manuscript_id} |->
        IF m = manuscript_id
        THEN [saved |-> FALSE,
              workflow |-> to_dict(WorkflowState(manuscript_id, None, NoneAt))]
        ELSE d[m]]

save_workflow_status(d, manuscript_id, workflow) ==
    [d EXCEPT ![manuscript_id] = [saved |-> TRUE, workflow |-> workflow]]

\* the workflows in memory after ensure_project_loaded(manuscript_id): a
\* workflow that is in memory is kept, one that is not is rebuilt from
\* status.json if the project has one
project_loaded(wfs, d, manuscript_id) ==
    IF manuscript_id \in DOMAIN wfs
    THEN wfs
    ELSE IF manuscript_id \in DOMAIN d /\ d[manuscript_id].saved
    THEN [m \in DOMAIN wfs \cup {manuscript_id} |->
             IF m = manuscript_id
             THEN ensure_project_loaded(d[manuscript_id].workflow)
             ELSE wfs[m]]
    ELSE wfs

\* the tasks that are running a stage of the manuscript
Running(m) ==
    {t \in Tasks : tasks[t].pc = "running" /\ tasks[t].manuscript_id = m}

\* the Issues the running reviewers of the manuscript have found
RunningIssues(m) ==
    LET found_by(t) == IF t \in Running(m) THEN tasks[t].issues ELSE 0 IN
    found_by("t1") + found_by("t2")

\* upload_manuscript: the project is created on disk and the workflow
\* started in memory
UploadManuscript(m) ==
    /\ m \notin DOMAIN disk
    /\ clock < MaxClock
    /\ disk' = create_project(disk, m)
    /\ workflows' = start_workflow(workflows, m, now)
    /\ clock' = now
    /\ UNCHANGED <<tasks, extraction>>
    /\ UNCHANGED registryVars
    /\ UNCHANGED parseVars
    /\ UNCHANGED runVars
    /\ UNCHANGED fixVars

\* the task that begins a run
BegunTask(m, stage, calls, overlapped) ==
    [pc |-> "running", manuscript_id |-> m, stage |-> stage, todo |-> calls,
     issues |-> 0, cancel_requested |-> FALSE, prevented |-> FALSE,
     overlapped |-> overlapped, status |-> 0]

\* a stage-run request arrives and is served by the first free task
StartRun(t, m, stage, calls) ==
    /\ tasks[t].pc = "idle"
    /\ t = "t2" => tasks["t1"].pc = "running"
    /\ workflows' = project_loaded(workflows, disk, m)
    /\ IF ~can_run_stage(workflows', m, stage).can_run
       THEN /\ tasks' = [tasks EXCEPT ![t] = IdleTask(400, FALSE)]
            /\ UNCHANGED _instance
       ELSE /\ _instance' = reset(_instance, m)
            /\ tasks' = [u \in Tasks |->
                   IF u = t
                   THEN BegunTask(m, stage, calls, Running(m) # {})
                   ELSE IF u \in Running(m)
                   THEN [tasks[u] EXCEPT !.overlapped = TRUE]
                   ELSE tasks[u]]
    /\ UNCHANGED <<clock, disk, extraction>>
    /\ UNCHANGED callVars
    /\ UNCHANGED parseVars
    /\ UNCHANGED runVars
    /\ UNCHANGED fixVars

\* a generation call of a running reviewer: with the manuscript's flag set
\* the call is prevented, and the reviewer goes on or, where the signal
\* leaves execute, the request ends with 500; otherwise the backend is
\* called and the answer holds found findings
Generate(t, found) ==
    /\ tasks[t].pc = "running"
    /\ tasks[t].todo > 0
    /\ tasks[t].stage = "ACQUISITIONS" => found = 0
    /\ workflows[tasks[t].manuscript_id].total_issues_found
          + RunningIssues(tasks[t].manuscript_id) + found <= MaxFindings
    /\ IF check_cancellation(_instance, tasks[t].manuscript_id)
       THEN /\ found = 0
            /\ IF catches_generate(tasks[t].stage)
               THEN tasks' = [tasks EXCEPT ![t].todo = @ - 1,
                                           ![t].prevented = TRUE,
                                           ![t].cancel_requested = FALSE]
               ELSE tasks' = [tasks EXCEPT ![t] =
                        IdleTask(500, @.overlapped)]
       ELSE tasks' = [tasks EXCEPT ![t].todo = @ - 1,
                                   ![t].issues = @ + found,
                                   ![t].prevented = FALSE,
                                   ![t].cancel_requested = FALSE]
    /\ UNCHANGED <<workflows, clock, disk, extraction>>
    /\ UNCHANGED registryVars
    /\ UNCHANGED parseVars
    /\ UNCHANGED runVars
    /\ UNCHANGED fixVars

\* execute has returned: the report is saved, the stage marked complete
\* and the workflow status saved; an exception of a saving is answered
\* with 500 and ends the request where it stands
FinishRun(t, saving) ==
    /\ tasks[t].pc = "running"
    /\ tasks[t].todo = 0
    /\ IF saving = "report_failed"
       THEN /\ tasks' = [tasks EXCEPT ![t] =
                   IdleTask(500, @.overlapped)]
            /\ UNCHANGED <<workflows, disk>>
       ELSE /\ workflows' = [workflows EXCEPT ![tasks[t].manuscript_id] =
                   mark_stage_complete(@, tasks[t].stage, tasks[t].issues, 0, now)]
            /\ IF saving = "saved"
               THEN /\ disk' = save_workflow_status(disk, tasks[t].manuscript_id,
                                   to_dict(workflows'[tasks[t].manuscript_id]))
                    /\ tasks' = [tasks EXCEPT ![t] =
                           IdleTask(200, @.overlapped)]
               ELSE /\ UNCHANGED disk
                    /\ tasks' = [tasks EXCEPT ![t] =
                           IdleTask(500, @.overlapped)]
    /\ UNCHANGED <<clock, extraction>>
    /\ UNCHANGED registryVars
    /\ UNCHANGED parseVars
    /\ UNCHANGED runVars
    /\ UNCHANGED fixVars

\* cancel_stage while requests may be running: the runs of the manuscript
\* that are in progress have a cancel request to see
CancelRequest(m) ==
    /\ _instance' = cancel(_instance, m)
    /\ tasks' = [u \in Tasks |->
           IF u \in Running(m)
           THEN [tasks[u] EXCEPT !.cancel_requested = TRUE]
           ELSE tasks[u]]
    /\ UNCHANGED <<workflows, clock, disk, extraction>>
    /\ UNCHANGED callVars
    /\ UNCHANGED parseVars
    /\ UNCHANGED runVars
    /\ UNCHANGED fixVars

\* the process is restarted: what was in memory is gone, the requests that
\* were being served with it, and the projects on disk are as they were
Restart ==
    /\ workflows' = <<>>
    /\ _instance' = CancellationManager_new(NoInstance)
    /\ tasks' = [t \in Tasks |-> IdleTask(0, FALSE)]
    /\ UNCHANGED <<clock, disk, extraction>>
    /\ UNCHANGED callVars
    /\ UNCHANGED parseVars
    /\ UNCHANGED runVars
    /\ UNCHANGED fixVars

InitServer ==
    /\ workflows = <<>>
    /\ clock = 0
    /\ RegistryAtImport
    /\ NoResponse

NextServer ==
    \/ \E m \in Manuscripts : UploadManuscript(m)
    \/ \E t \in Tasks, m \in Manuscripts, stage \in ServerStages,
          calls \in 1..MaxCalls : StartRun(t, m, stage, calls)
    \/ \E t \in Tasks, found \in 0..1 : Generate(t, found)
    \/ \E t \in Tasks, saving \in Savings : FinishRun(t, saving)
    \/ \E m \in Manuscripts : CancelRequest(m)
    \/ Restart

SpecServer == InitServer /\ [][NextServer]_vars

(***************************************************************************)
(* Claims on stage runs served side by side and on the persisted status.   *)
(***************************************************************************)
\* the run of task t has come to its mark_stage_complete
Completes(t) == FinishRun(t, "saved") \/ FinishRun(t, "status_failed")

\* C34: runs of one manuscript that are served side by side act on the
\* workflow like runs served one after the other, in the order in which
\* they come to their mark_stage_complete: when a run marks its stage
\* complete, can_run_stage still answers true for that stage in the state
\* it acts on (the check is not stale), the findings of the run are added
\* to the total that is there (no update is lost), the stage becomes
\* completed, no other status changes, and current_stage is the stage
\* after it.
C34_InterleavedRunsSerialise ==
    [][\A t \in Tasks :
          Completes(t) =>
             LET m == tasks[t].manuscript_id
                 stage == tasks[t].stage IN
             /\ can_run_stage(workflows, m, stage).can_run
             /\ workflows'[m].total_issues_found
                   = workflows[m].total_issues_found + tasks[t].issues
             /\ workflows'[m].total_fixes_applied = workflows[m].total_fixes_applied
             /\ workflows'[m].status[stage] = "COMPLETED"
             /\ \A s \in EditingStage \ {stage} :
                   workflows'[m].status[s] = workflows[m].status[s]
             /\ workflows'[m].current_stage = StageAfter(stage)
      ]_vars

\* two runs of the manuscript that were in progress at the same time have
\* both ended with success, and the total holds the findings of both
C34_Witness ==
    /\ \A t \in Tasks : tasks[t].pc = "idle" /\ tasks[t].status = 200
                        /\ tasks[t].overlapped
    /\ "m1" \in DOMAIN workflows
    /\ workflows["m1"].status["LINE"] = "COMPLETED"
    /\ workflows["m1"].total_issues_found = 2

\* C35: a cancel request made while a run of the manuscript is in progress
\* is not lost when another run of the manuscript starts: the next
\* generation call of the run in progress is prevented.
C35_CancelNotLost ==
    [][\A t \in Tasks, found \in 0..1 :
          (Generate(t, found) /\ tasks[t].cancel_requested) =>
             (tasks'[t].prevented \/ tasks'[t].status = 500)
      ]_vars

\* what a restarted process has of the manuscript after
\* ensure_project_loaded
Reloaded(m) == project_loaded(<<>>, disk, m)

\* C36: when no run of a manuscript is in progress, the workflow status on
\* disk is the one in memory: a restarted process that loads the project
\* has the same six statuses and current_stage and gives the same
\* can_run_stage answers.
C36_DiskMatchesMemory ==
    \A m \in DOMAIN workflows :
        Running(m) = {} =>
            /\ m \in DOMAIN Reloaded(m)
            /\ Reloaded(m)[m].status = workflows[m].status
            /\ Reloaded(m)[m].current_stage = workflows[m].current_stage
            /\ \A s \in EditingStage :
                  can_run_stage(Reloaded(m), m, s) = can_run_stage(workflows, m, s)

Absent == "<absent>"
\* the value of the key is a JSON number
Number == "<number>"

\* str fields of the Issue model take a str only: null and a number fail
\* the validation
IsStr_any(value) == TRUE

IsStr(value) == value \notin {None, Number}

\* dict.get(key, default): the default for an absent key only, a null
\* that is present is returned
get(issue_data, key, default) ==
    IF issue_data[key] = Absent THEN default ELSE issue_data[key]

\* str(value) as the f-string of the character check formats it
Formatted(value) ==
    CASE value = None -> "None"
      [] value = Number -> "3"
      [] OTHER -> value

\* the findings of the answers
CompleteFinding ==
    [object |-> TRUE, severity |-> "major", category |-> "plot",
     location |-> "Chapter 3", quote |-> "She walked in.",
     description |-> "Motivation unclear", suggestion |-> "Add a scene"]
EmptyFinding ==
    [object |-> TRUE, severity |-> Absent, category |-> Absent,
     location |-> Absent, quote |-> Absent, description |-> Absent,
     suggestion |-> Absent]
FindingKinds ==
    {CompleteFinding,
     EmptyFinding,
     [CompleteFinding EXCEPT !.location = None],
     [CompleteFinding EXCEPT !.description = None],
     [CompleteFinding EXCEPT !.severity = "high"],
     [CompleteFinding EXCEPT !.severity = Number],
     [EmptyFinding EXCEPT !.object = FALSE]}

\* the loops that make Issues of findings, by the stage tag, the severity
\* and the category they write (FromFinding: read from the finding), the
\* defaults of description and suggestion, the prefix of the description
\* and bible_conflict
FromFinding == "<from finding>"
Handlers ==
    {[name |-> "DevelopmentalEditor.execute", stage |-> "developmental",
      severity |-> FromFinding, severity_default |-> "major",
      category |-> FromFinding, category_default |-> "plot",
      description_default |-> "", suggestion_default |-> "",
      formatted |-> FALSE, bible_conflict |-> FALSE],
     [name |-> "LineEditor._analyze_voice", stage |-> "line",
      severity |-> FromFinding, severity_default |-> "minor",
      category |-> "voice", category_default |-> "voice",
      description_default |-> "Voice/tone issue",
      suggestion_default |-> "Review and revise",
      formatted |-> FALSE, bible_conflict |-> FALSE],
     [name |-> "CopyEditor._check_character_consistency", stage |-> "copy",
      severity |-> "major", severity_default |-> "major",
      category |-> "consistency", category_default |-> "consistency",
      description_default |-> "Inconsistency",
      suggestion_default |-> "Fix inconsistency",
      formatted |-> TRUE, bible_conflict |-> TRUE],
     [name |-> "Proofreader._find_typos", stage |-> "proof",
      severity |-> "minor", severity_default |-> "minor",
      category |-> "typo", category_default |-> "typo",
      description_default |-> "Typo", suggestion_default |-> "Fix typo",
      formatted |-> FALSE, bible_conflict |-> FALSE]}

\* the keyword arguments of the Issue(...) call of the handler for a
\* finding that is an object; status is not passed and takes its default
issue_arguments(handler, id, issue_data) ==
    [id |-> id,
     stage |-> handler.stage,
     severity |-> IF handler.severity = FromFinding
                  THEN get(issue_data, "severity", handler.severity_default)
                  ELSE handler.severity,
     category |-> IF handler.category = FromFinding
                  THEN get(issue_data, "category", handler.category_default)
                  ELSE handler.category,
     location |-> get(issue_data, "location", "Unknown"),
     original_text |-> get(issue_data, "quote", ""),
     description |-> IF handler.formatted
                     THEN "Character 'Max': "
                          \o Formatted(get(issue_data, "description",
                                           handler.description_default))
                     ELSE get(issue_data, "description", handler.description_default),
     suggestion |-> get(issue_data, "suggestion", handler.suggestion_default),
     bible_conflict |-> handler.bible_conflict,
     status |-> "open"]

\* the text fields of the Issue model
StrFields == {"stage", "severity", "category", "location", "original_text",
              "description", "suggestion", "status"}

\* the body of the loop raises for this finding: .get on a value that is
\* no object, or a field that fails the validation of the Issue model
Raises(handler, issue_data) ==
    \/ ~issue_data.object
    \/ \E field \in StrFields :
          ~IsStr(issue_arguments(handler, 1, issue_data)[field])

\* the Issues of one answer: the loop ends in the except clause at the
\* first finding that raises and the Issues made before it are returned
handler_issues(handler, issue_counter, findings) ==
    LET bad == {k \in 1..Len(findings) : Raises(handler, findings[k])}
        made == IF bad = {} THEN Len(findings) ELSE SetMin(bad) - 1 IN
    [k \in 1..made |-> issue_arguments(handler, issue_counter + k, findings[k])]

\* the sequences of findings of one answer
FindingLists == UNION {[1..n -> FindingKinds] : n \in 0..MaxFindings}

\* the bound of the model on the number of stored Issues
MaxKept == 1

\* what the stored results keep of an Issue
Summary(issue) == [id |-> issue.id, stage |-> issue.stage, status |-> issue.status]

\* the stored Issues with the list of one stage replaced
Replaced(kept, stage, issues) ==
    SelectSeq(kept, LAMBDA i : i.stage # stage)
       \o [k \in 1..Len(issues) |-> Summary(issues[k])]

\* a reviewer makes Issues of the findings of one answer
Extract(handler, findings) ==
    /\ extraction.pc = "idle"
    /\ extraction' = [extraction EXCEPT
          !.pc = "done",
          !.handler = handler.name,
          !.findings = findings,
          !.issues = handler_issues(handler, 0, findings)]

\* the endpoint stores the Issues of the run as the list of the stage
StoreIssues ==
    /\ extraction.pc = "done"
    /\ \E handler \in Handlers :
          /\ handler.name = extraction.handler
          /\ Len(Replaced(extraction.kept, handler.stage, extraction.issues))
                <= MaxKept
          /\ extraction' = [NoExtraction EXCEPT
                !.kept = Replaced(extraction.kept, handler.stage,
                                  extraction.issues)]

\* the run's Issues are not stored (the run fails later, or the stored
\* Issues would pass the bound of the model)
DropIssues ==
    /\ extraction.pc = "done"
    /\ extraction' = [NoExtraction EXCEPT !.kept = extraction.kept]

\* apply_fix, ignore_issue and unignore_issue set the status of a stored
\* Issue
SetStatus(k, status) ==
    /\ extraction.pc = "idle"
    /\ k \in 1..Len(extraction.kept)
    /\ status = "open" => extraction.kept[k].status = "ignored"
    /\ status # extraction.kept[k].status
    /\ extraction' = [extraction EXCEPT !.kept[k].status = status]

OtherThanExtraction ==
    /\ UNCHANGED managingVars
    /\ UNCHANGED callVars
    /\ UNCHANGED registryVars
    /\ UNCHANGED parseVars
    /\ UNCHANGED runVars
    /\ UNCHANGED fixVars
    /\ UNCHANGED serverVars

InitIssue ==
    /\ workflows = <<>>
    /\ clock = 1
    /\ RegistryAtImport
    /\ NoResponse

NextIssue ==
    \/ \E handler \in Handlers, findings \in FindingLists :
          Extract(handler, findings) /\ OtherThanExtraction
    \/ StoreIssues /\ OtherThanExtraction
    \/ DropIssues /\ OtherThanExtraction
    \/ \E k \in 1..MaxKept, status \in {"applied", "ignored", "open"} :
          SetStatus(k, status) /\ OtherThanExtraction

SpecIssue == InitIssue /\ [][NextIssue]_vars

(***************************************************************************)
(* Claim on the Issues of an extraction run.                               *)
(***************************************************************************)
\* the values that stand for a field that is missing or null
NoValue == {Absent, None, Number}

C39_EverySelectedIssueAttempted ==
    fix.pc = "done" =>
        /\ Len(fix.attempts) = Len(fix.selected_issues)
        /\ \A k \in 1..Len(fix.selected_issues) :
              \E i \in 1..Len(fix.attempts) :
                  /\ fix.attempts[i].issue = fix.selected_issues[k]
                  /\ \A j \in 1..Len(fix.attempts) :
                        fix.attempts[j].issue = fix.selected_issues[k] => j = i

====
